---- MODULE Spec2Model ----
(***************************************************************************)
(* Shine (trytond-shine): sheets, formulas, the tables a sheet activation   *)
(* provisions and the compute pipeline that fills them.                     *)
(*                                                                          *)
(* Strings the code inspects character by character (aliases, symbols,      *)
(* table names) are sequences of one-character strings.  Every handler is   *)
(* one action: it runs inside one host transaction, so a handler that       *)
(* raises leaves the database as it was and only `last` records what was    *)
(* raised.                                                                  *)
(***************************************************************************)
EXTENDS Integers, Sequences, FiniteSets, TLC

VARIABLES
    sheets,      \* shine.sheet records: id -> [state, revision, current_table, dataset]
    formulas,    \* shine.formula records of each sheet, in the order of sheet.formulas
    tables,      \* shine.table records: id -> [name, fields, create_date]
    tableSeq,    \* the id the next shine.table record gets
    physical,    \* the physical tables of the database: name -> [columns, rows, idseq]
    last,        \* the last handler call and how it ended
    form,        \* the formula form a user is filling in: [name, alias]
    reaper       \* the remove_old_tables call in progress: [pc, days, ids, seen, tables]

vars == <<sheets, formulas, tables, tableSeq, physical, last, form, reaper>>

(***************************************************************************)
(* Bounds of the model.                                                     *)
(***************************************************************************)
\* revisions the sheet may reach
MaxRevision == 3
\* days remove_old_tables is asked to keep
MaxDays == 1
\* rows of the table copy_from copies from
MaxCopyRows == 2
\* sheet ids and revisions whose table names are compared
MaxNameNumber == 12
\* revisions the sheet of the formula scenario may reach
MaxFormulaRevision == 2
\* the largest id the sequence of a table hands out
MaxRowId == 4
\* length of the names typed into on_change_name
MaxNameLen == 3
\* revisions the sheets of the scenario of two sheets may reach
MaxSheetsRevision == 3

(***************************************************************************)
(* Characters and symbols (shine.py 61-88).                                 *)
(***************************************************************************)
Letters == <<"a", "b", "c", "d", "e", "f", "g", "h", "i", "j", "k", "l", "m",
             "n", "o", "p", "q", "r", "s", "t", "u", "v", "w", "x", "y", "z">>

UpperLetters == <<"A", "B", "C", "D", "E", "F", "G", "H", "I", "J", "K", "L", "M",
                  "N", "O", "P", "Q", "R", "S", "T", "U", "V", "W", "X", "Y", "Z">>

Range(s) == {s[i] : i \in DOMAIN s}

VALID_FIRST_SYMBOLS == Range(Letters)

VALID_NEXT_SYMBOLS == {"_", "0", "1", "2", "3", "4", "5", "6", "7", "8", "9"}

VALID_SYMBOLS == VALID_FIRST_SYMBOLS \cup VALID_NEXT_SYMBOLS

\* str.lower() on one character
LowerChar(c) ==
    IF \E i \in DOMAIN UpperLetters : UpperLetters[i] = c
    THEN Letters[CHOOSE i \in DOMAIN UpperLetters : UpperLetters[i] = c]
    ELSE c

\* str.lower()
Lower(text) == [i \in DOMAIN text |-> LowerChar(text[i])]

\* unidecode.unidecode on one character: ASCII is kept, the two non-ASCII
\* characters of the model are transliterated ("e_acute" -> e, "sharp_s" -> ss)
UnidecodeChar(c) ==
    CASE c = "e_acute" -> <<"e">>
      [] c = "sharp_s" -> <<"s", "s">>
      [] OTHER -> <<c>>

RECURSIVE Unidecode(_)
Unidecode(text) ==
    IF text = <<>> THEN <<>>
    ELSE UnidecodeChar(Head(text)) \o Unidecode(Tail(text))

\* the loop of convert_to_symbol over text[1:]
RECURSIVE ConvertRest(_, _)
ConvertRest(symbol, rest) ==
    IF rest = <<>> THEN symbol
    ELSE LET x == Head(rest)
         IN IF x \notin VALID_SYMBOLS /\ symbol[Len(symbol)] # "_"
            THEN ConvertRest(symbol \o <<"_">>, Tail(rest))
            ELSE ConvertRest(symbol \o <<x>>, Tail(rest))

convert_to_symbol(text) ==
    IF text = <<>> THEN <<"x">>
    ELSE LET t == Lower(Unidecode(text))
             first == t[1]
             symbol == IF first \in VALID_FIRST_SYMBOLS THEN <<first>>
                       ELSE IF "_" \in VALID_SYMBOLS THEN <<"_", first>>
                       ELSE <<"_">>
         IN ConvertRest(symbol, Tail(t))

(***************************************************************************)
(* Python values.  A value is <<tag, payload>>: a number, the text of a     *)
(* number ("str"), or a text that spells no number ("text").                *)
(***************************************************************************)
None == <<"None">>

PyInt(n) == <<"int", n>>

PyFloat(n) == <<"float", n>>

PyStr(n) == <<"str", n>>

PyText(w) == <<"text", w>>

\* the XlError operand of the formulas library (#DIV/0!, #VALUE!, ...), a
\* string that spells no number
XlError == <<"XlError">>

\* what a Python call raised instead of returning
Raised(exc) == <<"raise", exc>>

IsRaised(v) == v[1] = "raise"

IsNumber(v) == v[1] \in {"int", "float"}

\* int(value)
py_int(v) ==
    CASE IsNumber(v) -> PyInt(v[2])
      [] v[1] = "str" -> PyInt(v[2])
      [] v[1] = "text" -> Raised("ValueError")
      [] v = XlError -> Raised("ValueError")
      [] OTHER -> Raised("TypeError")

\* float(value)
py_float(v) ==
    CASE IsNumber(v) -> PyFloat(v[2])
      [] v[1] = "str" -> PyFloat(v[2])
      [] v[1] = "text" -> Raised("ValueError")
      [] v = XlError -> Raised("ValueError")
      [] OTHER -> Raised("TypeError")

\* str(value): defined for every object
py_str(v) ==
    CASE IsNumber(v) -> PyStr(v[2])
      [] v[1] \in {"str", "text"} -> v
      [] OTHER -> PyText(v[1])

(***************************************************************************)
(* The type catalog, FIELD_TYPES (shine.py 26-59), for the logical types    *)
(* the model uses.                                                          *)
(***************************************************************************)
FieldTypes == {"char", "integer", "float", "icon"}

FIELD_TYPE_SQL(type) ==
    CASE type = "char" -> "VARCHAR"
      [] type = "integer" -> "INTEGER"
      [] type = "float" -> "FLOAT"
      [] type = "icon" -> "VARCHAR"
      [] type = "image" -> "BLOB"

FIELD_TYPE_TRYTON(type) ==
    CASE type = "char" -> "char"
      [] type = "integer" -> "integer"
      [] type = "float" -> "float"
      [] type = "icon" -> "char"
      [] type = "image" -> "binary"

\* FIELD_TYPE_PYTHON[type](value); a type that is no key raises KeyError
FIELD_TYPE_PYTHON(type, v) ==
    CASE type \in {"char", "icon"} -> py_str(v)
      [] type = "integer" -> py_int(v)
      [] type = "float" -> py_float(v)
      [] OTHER -> Raised("KeyError")

(***************************************************************************)
(* Expressions.  Formula.expression is a string; the model keeps what the   *)
(* code asks of it: whether it is empty, whether it starts with '=', and,   *)
(* for an '='-expression, what formulas.Parser makes of it.                 *)
(***************************************************************************)
\* expression None or ''
NoExpression == [kind |-> "none"]

\* a non-empty expression that does not start with '=': a static value
Static(text) == [kind |-> "static", text |-> text]

\* '=' followed by `op` applied to the names `inputs` (as the parser reports
\* them, in upper case)
Expr(op, inputs) ==
    [kind |-> "formula", syntax |-> TRUE, methods |-> {}, op |-> op, inputs |-> inputs]

\* an '='-expression the parser rejects (formulas.errors.FormulaError)
SyntaxErrorExpr ==
    [kind |-> "formula", syntax |-> FALSE, methods |-> {}, op |-> "none", inputs |-> <<>>]

\* an '='-expression that calls functions the library does not implement
UnknownMethodExpr(methods) ==
    [kind |-> "formula", syntax |-> TRUE, methods |-> methods, op |-> "none", inputs |-> <<>>]

\* bool(expression)
HasExpression(e) == e.kind # "none"

\* expression.startswith('=')
StartsWithEq(e) == e.kind = "formula"

\* the compiled function of an '='-expression applied to its arguments
Eval(e, args) ==
    CASE e.op = "double" ->
             IF IsNumber(args[1]) THEN PyFloat(2 * args[1][2]) ELSE XlError
      [] OTHER -> XlError

(***************************************************************************)
(* Formulas (shine.py 725-876).  A formula is                               *)
(* [alias, expression, type, store, sequence]; type "None" is no type and   *)
(* sequence 0 is NULL.  sheet.formulas is ordered by sequence, NULLs first, *)
(* then by id, that is by creation.                                         *)
(***************************************************************************)
NewFormula(a, e, t, st, sq) ==
    [alias |-> a, expression |-> e, type |-> t, store |-> st, sequence |-> sq]

\* the place a newly created formula takes in sheet.formulas
RECURSIVE InsertOrdered(_, _)
InsertOrdered(fs, f) ==
    IF fs = <<>> THEN <<f>>
    ELSE IF Head(fs).sequence <= f.sequence
         THEN <<Head(fs)>> \o InsertOrdered(Tail(fs), f)
         ELSE <<f>> \o fs

\* Formula.check_alias: the symbol it rejects, or "ok"
check_alias(f) ==
    IF \E i \in DOMAIN f.alias : f.alias[i] \notin VALID_SYMBOLS
    THEN "shine.invalid_alias" ELSE "ok"

\* a validation that lets a stored formula without type pass
NoCheckStore(f) == "ok"

\* Formula.check_store
check_store(f) ==
    IF f.type = "None" /\ f.store THEN "shine.invalid_store" ELSE "ok"

\* Formula.validate
validate(f) ==
    IF check_alias(f) # "ok" THEN check_alias(f) ELSE check_store(f)

\* a table of formulas without the constraint
NoConstraint(fs, f) == "ok"

\* the constraint sheet_alias_uniq of Formula.__setup__
sheet_alias_uniq(fs, f) ==
    IF \E i \in DOMAIN fs : fs[i].alias = f.alias THEN "shine.sheet_alias_uniq" ELSE "ok"

\* Formula.save of one new formula of a sheet whose formulas are fs: the row
\* is inserted under the table's constraints (alias is required), then
\* validated
FormulaSaveError(fs, f) ==
    IF f.alias = <<>> THEN "required"
    ELSE IF sheet_alias_uniq(fs, f) # "ok" THEN sheet_alias_uniq(fs, f)
    ELSE validate(f)

\* the aliases of every formula of the sheet, whatever its place
AllFormulas(fs, i) == {fs[j].alias : j \in DOMAIN fs}

\* Formula.previous_formulas of the formula at place i
previous_formulas(fs, i) == {fs[j].alias : j \in 1..(i - 1)}

\* a severity that makes an error of every finding
ErrorOnly(fs, i) ==
    LET e == fs[i].expression
    IN IF ~HasExpression(e) \/ ~StartsWithEq(e) THEN ""
       ELSE IF ~e.syntax \/ e.methods # {} THEN "error"
       ELSE IF {Lower(e.inputs[k]) : k \in DOMAIN e.inputs} \subseteq previous_formulas(fs, i)
       THEN "" ELSE "error"

\* Formula.formula_error of the formula at place i: "", "error" or "warning"
formula_error(fs, i) ==
    LET e == fs[i].expression
    IN IF ~HasExpression(e) THEN ""
       ELSE IF ~StartsWithEq(e) THEN ""
       ELSE IF ~e.syntax THEN "error"
       ELSE IF e.methods # {} THEN "error"
       ELSE LET missing == {Lower(e.inputs[k]) : k \in DOMAIN e.inputs}
                               \ previous_formulas(fs, i)
            IN IF missing = {} THEN "" ELSE "warning"

\* Formula.on_change_with_expression_icon
expression_icon(fs, i) ==
    LET e == fs[i].expression
    IN IF ~HasExpression(e) THEN ""
       ELSE IF ~StartsWithEq(e) THEN ""
       ELSE IF formula_error(fs, i) = "" THEN "green"
       ELSE IF formula_error(fs, i) = "warning" THEN "orange"
       ELSE "red"

(***************************************************************************)
(* Sheet checks (shine.py 361-384).                                         *)
(***************************************************************************)
\* a check that lets every icon but the orange one pass
CheckWarningsOnly(fs) ==
    IF \E i \in DOMAIN fs : expression_icon(fs, i) = "orange"
    THEN "shine.invalid_formula"
    ELSE IF ~(\E i \in DOMAIN fs : fs[i].store) THEN "shine.no_formulas"
    ELSE "ok"

\* Sheet.check_formulas: the UserError it raises, or "ok"
check_formulas(fs) ==
    IF \E i \in DOMAIN fs : expression_icon(fs, i) \notin {"", "green"}
    THEN "shine.invalid_formula"
    ELSE IF ~(\E i \in DOMAIN fs : fs[i].store) THEN "shine.no_formulas"
    ELSE "ok"

\* Sheet.check_icons: the UserError it raises, or "ok"
check_icons(fs) ==
    IF \E i \in DOMAIN fs : i > 1 /\ fs[i].type = "icon" /\ fs[i - 1].type = "icon"
    THEN "shine.consecutive_icons"
    ELSE IF fs # <<>> /\ fs[Len(fs)].type = "icon" THEN "shine.last_icon"
    ELSE "ok"

(***************************************************************************)
(* Table names (shine.py 444-447).                                          *)
(***************************************************************************)
DigitChars == <<"0", "1", "2", "3", "4", "5", "6", "7", "8", "9">>

\* '%d' % n, for n >= 0
RECURSIVE Decimal(_)
Decimal(n) ==
    IF n < 10 THEN <<DigitChars[n + 1]>>
    ELSE Decimal(n \div 10) \o <<DigitChars[(n % 10) + 1]>>

\* str.replace('.', '_')
ReplaceDots(text) == [i \in DOMAIN text |-> IF text[i] = "." THEN "_" ELSE text[i]]

\* a table name made of the sheet id alone
NameOfSheet(id, revision) ==
    ReplaceDots(<<"s", "h", "i", "n", "e", ".", "s", "h", "e", "e", "t", ".">>
                \o Decimal(id))

\* Sheet.data_table_name of the sheet with this id at this revision
data_table_name(id, revision) ==
    ReplaceDots(<<"s", "h", "i", "n", "e", ".", "s", "h", "e", "e", "t", ".">>
                \o Decimal(id) \o <<".">> \o Decimal(revision))

(***************************************************************************)
(* The schema registry (table.py 22-127).  A physical table is              *)
(* [columns, rows, idseq]: columns are [name, type], a row maps every       *)
(* column name to a value, idseq is the next value of the id sequence.      *)
(***************************************************************************)
IdColumn == <<"i", "d">>

\* how a call on the database ended: the database after it, or what it raised
Done(phys) == [raised |-> "", phys |-> phys]

Failed(exc) == [raised |-> exc, phys |-> <<>>]

\* the columns create_table adds to every table
AuditColumns ==
    << [name |-> <<"c", "r", "e", "a", "t", "e", "_", "u", "i", "d">>, type |-> "INTEGER"],
       [name |-> <<"w", "r", "i", "t", "e", "_", "u", "i", "d">>, type |-> "INTEGER"],
       [name |-> <<"c", "r", "e", "a", "t", "e", "_", "d", "a", "t", "e">>, type |-> "TIMESTAMP"],
       [name |-> <<"w", "r", "i", "t", "e", "_", "d", "a", "t", "e">>, type |-> "TIMESTAMP"] >>

ColumnNames(columns) == {columns[i].name : i \in DOMAIN columns}

\* TableHandler.add_column: a column that exists already is not added again
add_column(columns, col_name, sql_type) ==
    IF col_name \in ColumnNames(columns) THEN columns
    ELSE Append(columns, [name |-> col_name, type |-> sql_type])

RECURSIVE AddFieldColumns(_, _)
AddFieldColumns(columns, fields) ==
    IF fields = <<>> THEN columns
    ELSE AddFieldColumns(
             add_column(columns, Head(fields).name, FIELD_TYPE_SQL(Head(fields).type)),
             Tail(fields))

RECURSIVE AddAuditColumns(_, _)
AddAuditColumns(columns, audit) ==
    IF audit = <<>> THEN columns
    ELSE AddAuditColumns(add_column(columns, Head(audit).name, Head(audit).type),
                         Tail(audit))

\* Table.create_table on the database phys: an existing table of that name is
\* dropped, the new one has the id column of TableHandler, the audit columns
\* and one column per field
create_table(phys, tname, fields) ==
    LET idseq == IF tname \in DOMAIN phys THEN phys[tname].idseq ELSE 1
        columns == AddFieldColumns(
                       AddAuditColumns(<<[name |-> IdColumn, type |-> "INTEGER"]>>,
                                       AuditColumns),
                       fields)
        made == [columns |-> columns, rows |-> <<>>, idseq |-> idseq]
    IN [n \in DOMAIN phys \cup {tname} |-> IF n = tname THEN made ELSE phys[n]]

\* the fields Sheet.activate gives the new table: one per stored formula
RECURSIVE TableFields(_)
TableFields(fs) ==
    IF fs = <<>> THEN <<>>
    ELSE LET f == Head(fs)
         IN IF f.type = "None" \/ ~f.store THEN TableFields(Tail(fs))
            ELSE <<[name |-> f.alias, type |-> f.type,
                    formula |-> IF HasExpression(f.expression) /\ StartsWithEq(f.expression)
                                THEN f.expression ELSE NoExpression]>>
                 \o TableFields(Tail(fs))

FieldNames(fields) == {fields[i].name : i \in DOMAIN fields}

\* Table.count
count(phys, tname) == Len(phys[tname].rows)

\* one row of INSERT INTO tname (cols): the columns not named are NULL, the id
\* comes from the sequence unless it is named
InsertedRow(table, given) ==
    [c \in ColumnNames(table.columns) |->
        IF c \in DOMAIN given THEN given[c]
        ELSE IF c = IdColumn THEN PyInt(table.idseq)
        ELSE None]

\* INSERT INTO a table of the rows `givens` (each maps column names to values)
RECURSIVE InsertRows(_, _)
InsertRows(table, givens) ==
    IF givens = <<>> THEN table
    ELSE LET g == Head(givens)
             t == [table EXCEPT
                      !.rows = Append(@, InsertedRow(table, g)),
                      !.idseq = IF IdColumn \in DOMAIN g THEN @ ELSE @ + 1]
         IN InsertRows(t, Tail(givens))

Restrict(f, S) == [x \in S |-> f[x]]

\* Table.copy_from: the database after it, or what it raised.  `new` and
\* `old` are shine.table records.  The name Warning is not bound to the
\* warning model in table.py, so Warning.check is an attribute error.
copy_from(phys, new, old) ==
    LET fields == FieldNames(new.fields)
        from_fields == FieldNames(old.fields)
        missing == from_fields \ fields
        common == fields \cap from_fields
        TypeIn(fl, n) == (CHOOSE i \in DOMAIN fl : fl[i].name = n)
        different_types ==
            {n \in common :
                FIELD_TYPE_TRYTON(old.fields[TypeIn(old.fields, n)].type)
                    # FIELD_TYPE_TRYTON(new.fields[TypeIn(new.fields, n)].type)}
        existing == common \ different_types
        src == phys[old.name].rows
        givens == [i \in DOMAIN src |-> Restrict(src[i], existing)]
    IN IF missing # {} \/ different_types # {} THEN Failed("AttributeError")
       ELSE IF existing = {} THEN Done(phys)
       ELSE Done([phys EXCEPT ![new.name] = InsertRows(@, givens)])

\* the columns the message of copy_from names: the columns of the old table
\* the new one lacks, and those whose logical type differs
copy_from_message(new, old) ==
    LET fields == FieldNames(new.fields)
        from_fields == FieldNames(old.fields)
        TypeIn(fl, n) == (CHOOSE i \in DOMAIN fl : fl[i].name = n)
    IN (from_fields \ fields)
       \cup {n \in fields \cap from_fields :
                FIELD_TYPE_TRYTON(old.fields[TypeIn(old.fields, n)].type)
                    # FIELD_TYPE_TRYTON(new.fields[TypeIn(new.fields, n)].type)}

(***************************************************************************)
(* Re-derivation of the record access layer (data.py 88-103, 297-337), as   *)
(* Sheet.activate runs it on the rows it has just copied.                   *)
(***************************************************************************)
\* Data.on_change_with of one row for one formula-bearing field: the value,
\* or what it raised.  An input that is no column of the row is an
\* attribute error; an XlError result becomes None.
on_change_with(row, field) ==
    LET args == [k \in DOMAIN field.formula.inputs |->
                    row[Lower(field.formula.inputs[k])]]
    IN IF \E k \in DOMAIN field.formula.inputs :
              Lower(field.formula.inputs[k]) \notin DOMAIN row
       THEN Raised("AttributeError")
       ELSE IF Eval(field.formula, args) = XlError THEN None
       ELSE Eval(field.formula, args)

\* Data.update_formulas() on every row of a non-empty table, followed by the
\* Data.write of the derived values
update_formulas_rows(phys, table) ==
    LET formula_fields == {i \in DOMAIN table.fields :
                              HasExpression(table.fields[i].formula)}
        rows == phys[table.name].rows
        Derived(row) ==
            [c \in DOMAIN row |->
                IF \E i \in formula_fields : table.fields[i].name = c
                THEN on_change_with(row,
                         table.fields[CHOOSE i \in formula_fields :
                                          table.fields[i].name = c])
                ELSE row[c]]
    IN IF formula_fields = {} THEN Done(phys)
       ELSE IF \E r \in DOMAIN rows : \E i \in formula_fields :
                   IsRaised(on_change_with(rows[r], table.fields[i]))
       THEN Failed("AttributeError")
       ELSE Done([phys EXCEPT ![table.name].rows =
                      [r \in DOMAIN rows |-> Derived(rows[r])]])

(***************************************************************************)
(* DataSet.get_data_model (shine.py 686-707), consumed to its end.  The     *)
(* matching records are their ids in the order of the search.  The batch    *)
(* size RECORD_CACHE_SIZE is what config.get returns: the text of the       *)
(* option.  Whether the select takes a text as its limit is not decided in   *)
(* this repository: it either fails on it or reads the number it spells.    *)
(***************************************************************************)
PyBool(b) == <<"bool", b>>

\* a < b of Python 3: numbers compare with numbers, a number and a text do
\* not compare
py_less(a, b) ==
    IF IsNumber(a) /\ IsNumber(b) THEN PyBool(a[2] < b[2]) ELSE Raised("TypeError")

\* Model.search(domain, offset, limit, order) over the matching records
search(matching, offset, limit, strict) ==
    IF ~IsNumber(limit) /\ strict THEN [raised |-> "AssertionError", records |-> <<>>]
    ELSE [raised |-> "",
          records |-> SubSeq(matching, offset + 1,
                             IF offset + limit[2] < Len(matching) THEN offset + limit[2]
                             ELSE Len(matching))]

\* the turns of the loop a consumer waits for
MaxBatches == 3

\* the loop of get_data_model from its n-th turn on: the batches yielded,
\* and what ended the loop: "" is the break, "running" a loop that is still
\* yielding after MaxBatches turns
RECURSIVE ModelLoop(_, _, _, _, _, _)
ModelLoop(matching, limit, offset, strict, batches, n) ==
    LET found == search(matching, offset, limit, strict)
        records == found.records
        yielded == IF records # <<>> THEN Append(batches, records) ELSE batches
    IN IF n > MaxBatches THEN [raised |-> "running", batches |-> batches]
       ELSE IF found.raised # "" THEN [raised |-> found.raised, batches |-> batches]
       ELSE IF IsRaised(py_less(PyInt(Len(records)), limit))
       THEN [raised |-> py_less(PyInt(Len(records)), limit)[2], batches |-> yielded]
       ELSE IF py_less(PyInt(Len(records)), limit)[2]
       THEN [raised |-> "", batches |-> yielded]
       ELSE ModelLoop(matching, limit, offset, strict, yielded, n + 1)

\* DataSet.get_data_model: offset is 0 and stays 0
get_data_model(matching, RECORD_CACHE_SIZE, strict) ==
    ModelLoop(matching, RECORD_CACHE_SIZE, 0, strict, <<>>, 1)

(***************************************************************************)
(* Datasets (shine.py 525-722).  A dataset is what get_fields and get_data  *)
(* return: the fields and the batches of records; a record maps the names   *)
(* of its attributes to values.                                             *)
(***************************************************************************)
AliasA == <<"a">>

AliasB == <<"b">>

\* an sql source whose query selects the column a of two rows
QueryDataSet ==
    [source |-> "sql",
     fields |-> << [alias |-> AliasA, type |-> "integer"] >>,
     batches |-> << << (AliasA :> PyInt(3)), (AliasA :> PyInt(5)) >> >>,
     ends |-> ""]

AliasC == <<"c">>

\* an sql source whose query selects the columns a and c of two rows
WideDataSet ==
    [source |-> "sql",
     fields |-> << [alias |-> AliasA, type |-> "integer"],
                   [alias |-> AliasC, type |-> "char"] >>,
     batches |-> << << (AliasA :> PyInt(3)) @@ (AliasC :> PyText("u")),
                       (AliasA :> PyInt(5)) @@ (AliasC :> PyText("v")) >> >>,
     ends |-> ""]

\* the batch size of the model source: the text of the option
ModelBatchSize == PyStr(2)

\* a model source with the two records of the query: what get_data_model
\* yields and how it ends, on a search that rejects the text limit (strict)
\* and on one that reads it
ModelDataSet(strict) ==
    LET read == get_data_model(QueryDataSet.batches[1], ModelBatchSize, strict)
    IN [source |-> "model",
        fields |-> QueryDataSet.fields,
        batches |-> read.batches,
        ends |-> read.raised]

DataSets ==
    [d \in {"query", "wide", "model", "strict"} |->
        CASE d = "query" -> QueryDataSet
          [] d = "wide" -> WideDataSet
          [] d = "model" -> ModelDataSet(FALSE)
          [] d = "strict" -> ModelDataSet(TRUE)]

DataSetIds == DOMAIN DataSets

\* DataSet.get_fields
get_fields(d) == DataSets[d].fields

\* DataSet.get_data: the batches it yields
get_data(d) == DataSets[d].batches

\* what ends the iteration of DataSet.get_data after its batches: "" when
\* the generator returns, else the exception it raises
get_data_ends(d) == DataSets[d].ends

RECURSIVE Flatten(_)
Flatten(batches) ==
    IF batches = <<>> THEN <<>> ELSE Head(batches) \o Flatten(Tail(batches))

(***************************************************************************)
(* Sheet.compute_sheet (shine.py 449-501).                                  *)
(***************************************************************************)
Aliases(fs) == [i \in DOMAIN fs |-> fs[i].alias]

IsDirect(f) == ~HasExpression(f.expression)

IsFormulaField(f) == HasExpression(f.expression)

\* the value compute_sheet gives one formula field of one record; `direct` is
\* the ordered map of the record's direct values, the only entries of
\* `values` that are keyed by an alias
FormulaValue(f, direct) ==
    LET e == f.expression
        args == [k \in DOMAIN e.inputs |-> direct[Lower(e.inputs[k])]]
    IN IF StartsWithEq(e)
       THEN IF \E k \in DOMAIN e.inputs : Lower(e.inputs[k]) \notin DOMAIN direct
            THEN Raised("KeyError")
            ELSE FIELD_TYPE_PYTHON(f.type, Eval(e, args))
       ELSE FIELD_TYPE_PYTHON(f.type, e.text)

\* a column list in the order of sheet.formulas
SheetOrder(fs) == Aliases(fs)

\* sql_fields of compute_sheet: the columns of the insert, the direct fields
\* followed by the formula fields
sql_fields(fs) == Aliases(SelectSeq(fs, IsDirect)) \o Aliases(SelectSeq(fs, IsFormulaField))

\* list(values.values()) for one record: the direct values in the order of
\* direct_fields, then the values of the formula fields in their order; with
\* no formula field this is the list of the fast path
ValuesList(fs, record) ==
    LET direct_fields == SelectSeq(fs, IsDirect)
        formula_fields == SelectSeq(fs, IsFormulaField)
        direct == [a \in Range(Aliases(direct_fields)) |-> record[a]]
    IN [i \in DOMAIN direct_fields |-> record[direct_fields[i].alias]]
           \o [i \in DOMAIN formula_fields |-> FormulaValue(formula_fields[i], direct)]

\* the row the insert makes of one record: the value at each place of the
\* list goes to the column at the same place of sql_fields
RowValues(fs, record) ==
    LET columns == sql_fields(fs)
        values == ValuesList(fs, record)
    IN [a \in Range(columns) |-> values[CHOOSE i \in DOMAIN columns : columns[i] = a]]

\* what building the values of one record raises, or ""
RowRaises(fs, record) ==
    LET direct_fields == SelectSeq(fs, IsDirect)
        formula_fields == SelectSeq(fs, IsFormulaField)
        direct == [a \in Range(Aliases(direct_fields)) |-> record[a]]
    IN IF \E i \in DOMAIN direct_fields : direct_fields[i].alias \notin DOMAIN record
       THEN "KeyError"
       ELSE IF \E i \in DOMAIN formula_fields :
                   IsRaised(FormulaValue(formula_fields[i], direct))
       THEN LET i == CHOOSE j \in DOMAIN formula_fields :
                         /\ IsRaised(FormulaValue(formula_fields[j], direct))
                         /\ \A k \in 1..(j - 1) :
                                ~IsRaised(FormulaValue(formula_fields[k], direct))
            IN FormulaValue(formula_fields[i], direct)[2]
       ELSE ""

\* a computation that keeps the rows it found
KeepRows(table) == table

\* cursor.execute(*table.delete()): every row of the table is deleted
DeleteRows(table) == [table EXCEPT !.rows = <<>>]

\* where the dataset blocks for longer than the sheet's timeout during a
\* compute: nowhere, while the batch is fetched (before get_data yields it),
\* or inside the batch, while its records are iterated
BlockPoints == {"none", "fetch", "inside"}

\* TimeoutChecker.check, called when a batch has been yielded and before its
\* records are iterated: it sees the time spent so far
check(late) == IF late = "fetch" THEN "TimeoutException" ELSE ""

\* a compute_sheet that ran to its end with the INSERT statements it
\* executed, each the list of its rows, and one that an exception ended
\* before a statement of it inserted a row
Ran(phys, statements) == [raised |-> "", phys |-> phys, statements |-> statements]

Aborted(exc) == [raised |-> exc, phys |-> <<>>, statements |-> <<>>]

\* one INSERT for every row
InsertPerRow(fs, batches) ==
    [i \in DOMAIN Flatten(batches) |-> <<RowValues(fs, Flatten(batches)[i])>>]

\* the INSERT statements of compute_sheet: insert_values collects the rows
\* of every batch and one statement after the loops inserts them, none when
\* there is no row
insert_statements(fs, batches) ==
    LET records == Flatten(batches)
        insert_values == [i \in DOMAIN records |-> RowValues(fs, records[i])]
    IN IF insert_values = <<>> THEN <<>> ELSE <<insert_values>>

\* the statements executed on a table, one after the other
RECURSIVE ExecuteInserts(_, _)
ExecuteInserts(table, statements) ==
    IF statements = <<>> THEN table
    ELSE ExecuteInserts(InsertRows(table, Head(statements)), Tail(statements))

\* Sheet.compute_sheet of a sheet record with formulas fs on the database
\* phys; `late` is the point where the dataset blocks
compute_sheet(phys, id, sheet, fs, late) ==
    LET tname == data_table_name(id, sheet.revision)
        records == Flatten(get_data(sheet.dataset))
        emptied == DeleteRows(phys[tname])
        statements == insert_statements(fs, get_data(sheet.dataset))
    IN IF tname \notin DOMAIN phys THEN Aborted("ProgrammingError")
       ELSE IF \E i \in DOMAIN fs : /\ StartsWithEq(fs[i].expression)
                                    /\ ~fs[i].expression.syntax
       THEN Aborted("FormulaError")
       ELSE IF sheet.dataset = "None" THEN Aborted("AttributeError")
       ELSE IF get_data(sheet.dataset) # <<>> /\ check(late) # ""
       THEN Aborted(check(late))
       ELSE IF \E i \in DOMAIN records : RowRaises(fs, records[i]) # ""
       THEN Aborted(RowRaises(fs, records[CHOOSE i \in DOMAIN records :
                       /\ RowRaises(fs, records[i]) # ""
                       /\ \A j \in 1..(i - 1) : RowRaises(fs, records[j]) = ""]))
       ELSE IF get_data_ends(sheet.dataset) # ""
       THEN Aborted(get_data_ends(sheet.dataset))
       ELSE IF records = <<>> THEN Ran([phys EXCEPT ![tname] = emptied], <<>>)
       ELSE IF ~(Range(Aliases(fs)) \subseteq ColumnNames(phys[tname].columns))
       THEN Aborted("ProgrammingError")
       ELSE Ran([phys EXCEPT ![tname] = ExecuteInserts(emptied, statements)],
                statements)

(***************************************************************************)
(* Sheets (shine.py 130-522).                                               *)
(***************************************************************************)
SheetIds == {1, 2}

\* Sheet._transitions
Transitions ==
    { <<"draft", "active">>, <<"draft", "canceled">>, <<"active", "draft">>,
      <<"active", "canceled">>, <<"canceled", "draft">> }

\* a transition that hands every record to the handler
Unfiltered(sh, list, target) == list

\* Workflow.transition(target): the handler receives the records whose state
\* has a transition to the target, in the order given
Filtered(sh, list, target) ==
    LET Allowed(id) == <<sh[id].state, target>> \in Transitions
    IN SelectSeq(list, Allowed)

\* a new sheet: default_state, default_revision, no table, no views
NewSheet(dataset) ==
    [state |-> "draft", revision |-> 1, current_table |-> 0, dataset |-> dataset,
     views |-> <<>>]

\* a shine.view record with its action: View.update_actions writes into the
\* context of the action the current table the sheet has at that moment
ViewOn(system, type, current_table) ==
    [system |-> system, type |-> type, shine_table |-> current_table]

\* Sheet.reset_views for one sheet, of type 'sheet': the system views are
\* deleted, the views of the user stay as they are, and the default list
\* view and the default form view are created
reset_views(sheet) ==
    LET IsUser(v) == ~v.system
    IN SelectSeq(sheet.views, IsUser)
       \o <<ViewOn(TRUE, "table", sheet.current_table),
            ViewOn(TRUE, "custom", sheet.current_table)>>

\* the record of a handler call: what it raised and with which message, and
\* a context without the keys of shine.data
NoContext == [shine_table |-> 0, shine_sheet |-> 0, shine_view |-> 0]

\* a handler call: the tables it dropped and, where it has them, its
\* argument days, its context, the table it returned, its other arguments
\* and what else it returned
Call(op, raised, error, dropped) ==
    [op |-> op, raised |-> raised, error |-> error, dropped |-> dropped,
     blocked |-> "none", days |-> 0, again |-> FALSE,
     context |-> NoContext, table |-> 0, args |-> <<>>, result |-> <<>>]

\* an activation that keeps the revision it found
SameRevision(revision) == revision

\* sheet.revision += 1
NextRevision(revision) == revision + 1

\* the body of the loop of Sheet.activate for one sheet, on the database db
\* of the transaction so far
ActivateSheet(db, id) ==
    LET fs == db.formulas[id]
        sheet == db.sheets[id]
        revision == NextRevision(sheet.revision)
        tname == data_table_name(id, revision)
        tid == db.tableSeq
        table == [name |-> tname, fields |-> TableFields(fs), create_date |-> tid]
        created == create_table(db.physical, tname, table.fields)
        old == db.tables[sheet.current_table]
        copies == /\ sheet.dataset = "None"
                  /\ sheet.current_table # 0
                  /\ count(created, old.name) > 0
        copied == IF copies THEN copy_from(created, table, old) ELSE Done(created)
        derived == IF copies /\ copied.raised = ""
                   THEN update_formulas_rows(copied.phys, table) ELSE copied
    IN IF check_formulas(fs) # "ok"
       THEN [db EXCEPT !.raised = "UserError", !.error = check_formulas(fs)]
       ELSE IF check_icons(fs) # "ok"
       THEN [db EXCEPT !.raised = "UserError", !.error = check_icons(fs)]
       ELSE IF derived.raised # ""
       THEN [db EXCEPT !.raised = derived.raised]
       ELSE [db EXCEPT
                !.sheets[id].revision = revision,
                !.sheets[id].current_table = tid,
                !.tables = [t \in DOMAIN db.tables \cup {tid} |->
                               IF t = tid THEN table ELSE db.tables[t]],
                !.tableSeq = tid + 1,
                !.physical = derived.phys,
                !.dropped = @ \cup (IF tname \in DOMAIN db.physical THEN {tname} ELSE {})]

RECURSIVE ActivateAll(_, _)
ActivateAll(db, list) ==
    IF list = <<>> \/ db.raised # "" THEN db
    ELSE ActivateAll(ActivateSheet(db, Head(list)), Tail(list))

\* the id sequences stay within the bound
WithinIds(phys) == \A n \in DOMAIN phys : phys[n].idseq <= MaxRowId + 1

\* the database a handler starts on
Database ==
    [sheets |-> sheets, formulas |-> formulas, tables |-> tables,
     tableSeq |-> tableSeq, physical |-> physical,
     raised |-> "", error |-> "", dropped |-> {}]

\* Sheet.activate(sheets), a transition to active; a sheet at max_revision is
\* not activated again.  `given` is what the call record keeps of the list
ActivateGiven(list, max_revision, given) ==
    LET filtered == Filtered(sheets, list, "active")
        db == ActivateAll(Database, filtered)
    IN /\ \A id \in Range(filtered) : sheets[id].revision < max_revision
       /\ db.raised = "" => WithinIds(db.physical)
       /\ IF db.raised = ""
          THEN /\ sheets' = [id \in DOMAIN sheets |->
                                IF id \in Range(filtered)
                                THEN [db.sheets[id] EXCEPT
                                         !.state = "active",
                                         !.views = reset_views(db.sheets[id])]
                                ELSE sheets[id]]
               /\ tables' = db.tables
               /\ tableSeq' = db.tableSeq
               /\ physical' = db.physical
          ELSE UNCHANGED <<sheets, tables, tableSeq, physical>>
       /\ last' = [Call("activate", db.raised, db.error, db.dropped) EXCEPT !.args = given]
       /\ UNCHANGED <<formulas, form, reaper>>

Activate(list, max_revision) == ActivateGiven(list, max_revision, <<>>)

\* Sheet.draft(sheets), a transition to draft
Draft(list) ==
    LET filtered == Filtered(sheets, list, "draft")
    IN /\ sheets' = [id \in DOMAIN sheets |->
                        IF id \in Range(filtered)
                        THEN [sheets[id] EXCEPT !.state = "draft"] ELSE sheets[id]]
       /\ last' = Call("draft", "", "", {})
       /\ UNCHANGED <<formulas, tables, tableSeq, physical, form, reaper>>

RECURSIVE ComputeAll(_, _, _)
ComputeAll(done, list, late) ==
    IF list = <<>> \/ done.raised # "" THEN done
    ELSE ComputeAll(compute_sheet(done.phys, Head(list), sheets[Head(list)],
                                  formulas[Head(list)], late),
                    Tail(list), late)

\* compute_sheet gets as far as reading the dataset: the delete and the
\* parsing of the formulas succeed and the sheet has a dataset
ReadsDataSet(phys, id) ==
    /\ data_table_name(id, sheets[id].revision) \in DOMAIN phys
    /\ \A i \in DOMAIN formulas[id] :
          StartsWithEq(formulas[id][i].expression) => formulas[id][i].expression.syntax
    /\ sheets[id].dataset # "None"

\* Sheet.compute(sheets); `given` is what the call record keeps of the list,
\* and with it the INSERT statements of the last compute_sheet of the call
ComputeGiven(list, late, given) ==
    LET done == ComputeAll(Ran(physical, <<>>), list, late)
    IN /\ done.raised = "" => WithinIds(done.phys)
       /\ IF done.raised = "" THEN physical' = done.phys ELSE UNCHANGED physical
       /\ last' = [Call("compute", done.raised, "", {}) EXCEPT
                       !.blocked = IF ReadsDataSet(physical, Head(list)) THEN late
                                   ELSE "none",
                       !.args = given,
                       !.result = IF given = <<>> THEN <<>> ELSE done.statements]
       /\ UNCHANGED <<sheets, formulas, tables, tableSeq, form, reaper>>

Compute(list, late) == ComputeGiven(list, late, <<>>)

\* Sheet.copy(sheets) of one sheet: ModelStorage.copy makes a record with
\* the values of the fields of the sheet, its formulas copied with it, and
\* the defaults given: no current table (and no views).  The new record
\* takes the id `to`, an id no sheet has used: its place holds a new sheet
\* without formulas
SheetCopy(from, to) ==
    /\ from # to
    /\ sheets[to] = NewSheet(sheets[to].dataset)
    /\ formulas[to] = <<>>
    /\ sheets' = [sheets EXCEPT ![to] = [sheets[from] EXCEPT
                                             !.current_table = 0, !.views = <<>>]]
    /\ formulas' = [formulas EXCEPT ![to] = formulas[from]]
    /\ last' = Call("sheet_copy", "", "", {})
    /\ UNCHANGED <<tables, tableSeq, physical, form, reaper>>

\* the views of a sheet that the user made
UserViews(sheet) ==
    LET IsUser(v) == ~v.system
    IN SelectSeq(sheet.views, IsUser)

\* View.create of one view of the user, a table view, on the sheet id:
\* update_actions reads view.current_table.id, which a sheet without current
\* table does not have
ViewCreate(id, max_views) ==
    LET sheet == sheets[id]
        raised == IF sheet.current_table = 0 THEN "AttributeError" ELSE ""
    IN /\ Len(UserViews(sheet)) < max_views
       /\ IF raised = ""
          THEN sheets' = [sheets EXCEPT ![id].views =
                             Append(@, ViewOn(FALSE, "table", sheet.current_table))]
          ELSE UNCHANGED sheets
       /\ last' = [Call("view_create", raised, "", {}) EXCEPT !.args = <<id>>]
       /\ UNCHANGED <<formulas, tables, tableSeq, physical, form, reaper>>

\* the formulas Sheet.update_formulas makes for one sheet: one per field of
\* the dataset whose alias none of the sheet's formulas has
RECURSIVE MissingFormulas(_, _)
MissingFormulas(current_formulas, fields) ==
    IF fields = <<>> THEN <<>>
    ELSE IF Head(fields).alias \in current_formulas
         THEN MissingFormulas(current_formulas, Tail(fields))
         ELSE <<NewFormula(Head(fields).alias, NoExpression, Head(fields).type, TRUE, 0)>>
              \o MissingFormulas(current_formulas, Tail(fields))

\* Formula.save of new formulas of one sheet, one after the other
RECURSIVE SaveAll(_, _, _)
SaveAll(db, id, new) ==
    IF new = <<>> \/ db.raised # "" THEN db
    ELSE LET error == FormulaSaveError(db.formulas[id], Head(new))
         IN IF error # "ok"
            THEN [db EXCEPT !.raised = "UserError", !.error = error]
            ELSE SaveAll([db EXCEPT !.formulas[id] = InsertOrdered(@, Head(new))],
                         id, Tail(new))

\* the loop of Sheet.update_formulas: a sheet without dataset ends the call
\* before anything is saved
RECURSIVE UpdateAll(_, _)
UpdateAll(db, list) ==
    IF list = <<>> \/ db.raised # "" THEN db
    ELSE IF sheets[Head(list)].dataset = "None" THEN Database
    ELSE UpdateAll(
             SaveAll(db, Head(list),
                     MissingFormulas(Range(Aliases(formulas[Head(list)])),
                                     get_fields(sheets[Head(list)].dataset))),
             Tail(list))

\* Sheet.update_formulas(sheets); `given` is what the call record keeps of
\* the list
UpdateFormulasGiven(list, given) ==
    LET db == UpdateAll(Database, list)
    IN /\ IF db.raised = "" THEN formulas' = db.formulas ELSE UNCHANGED formulas
       /\ last' = [Call("update_formulas", db.raised, db.error, {})
                      EXCEPT !.args = given]
       /\ UNCHANGED <<sheets, tables, tableSeq, physical, form, reaper>>

UpdateFormulas(list) == UpdateFormulasGiven(list, <<>>)

\* Formula.save of a new formula f of a sheet; the fields of a formula are
\* read-only unless its sheet is in draft
FormulaCreate(id, f) ==
    LET error == FormulaSaveError(formulas[id], f)
    IN /\ sheets[id].state = "draft"
       /\ IF error = "ok"
          THEN formulas' = [formulas EXCEPT ![id] = InsertOrdered(@, f)]
          ELSE UNCHANGED formulas
       /\ last' = Call("formula_save", IF error = "ok" THEN "" ELSE "UserError",
                       IF error = "ok" THEN "" ELSE error, {})
       /\ UNCHANGED <<sheets, tables, tableSeq, physical, form, reaper>>

\* Formula.delete of the formula at place i of a sheet in draft
FormulaDelete(id, i) ==
    /\ sheets[id].state = "draft"
    /\ i \in DOMAIN formulas[id]
    /\ formulas' = [formulas EXCEPT ![id] =
                       SubSeq(@, 1, i - 1) \o SubSeq(@, i + 1, Len(@))]
    /\ last' = Call("formula_delete", "", "", {})
    /\ UNCHANGED <<sheets, tables, tableSeq, physical, form, reaper>>

\* writing Sheet.dataset, read-only unless the sheet is in draft
SetDataset(id, d) ==
    /\ sheets[id].state = "draft"
    /\ sheets[id].dataset # d
    /\ sheets' = [sheets EXCEPT ![id].dataset = d]
    /\ last' = Call("sheet_write", "", "", {})
    /\ UNCHANGED <<formulas, tables, tableSeq, physical, form, reaper>>

\* Formula.on_change_name (and Sheet.on_change_name): an empty alias is
\* filled in from the name
OnChangeName ==
    /\ form.alias = <<>>
    /\ form' = [form EXCEPT !.alias = convert_to_symbol(form.name)]
    /\ UNCHANGED <<sheets, formulas, tables, tableSeq, physical, last, reaper>>

(***************************************************************************)
(* The reaper (table.py 111-127).  Time is counted in table creations: the *)
(* create_date of a table is its id and now is the id the next table gets. *)
(***************************************************************************)
\* no remove_old_tables call is in progress
Idle == [pc |-> "idle", days |-> 0, ids |-> {}, seen |-> <<>>, tables |-> {}]

\* Table.drop_table: DROP TABLE and its id sequence; dropping a table that
\* does not exist is an error of the database
drop_table(phys, tname) ==
    IF tname \notin DOMAIN phys THEN Failed("ProgrammingError")
    ELSE Done([n \in DOMAIN phys \ {tname} |-> phys[n]])

\* the records of a search, in the order of their ids
RECURSIVE Ascending(_)
Ascending(S) ==
    IF S = {} THEN <<>>
    ELSE LET m == CHOOSE x \in S : \A y \in S : x <= y
         IN <<m>> \o Ascending(S \ {m})

\* the loop of Table.delete: table.drop_table() for each table of the list
RECURSIVE DropAll(_, _, _)
DropAll(done, tbls, list) ==
    IF list = <<>> \/ done.raised # "" THEN done
    ELSE IF Head(list) \notin DOMAIN tbls THEN Failed("AccessError")
    ELSE DropAll(drop_table(done.phys, tbls[Head(list)].name), tbls, Tail(list))

\* a delete that leaves the records where they are
KeepRecords(tbls, ids) == tbls

\* super(Table, cls).delete(tables): the records are deleted
delete_records(tbls, ids) == [t \in DOMAIN tbls \ ids |-> tbls[t]]

\* Table.delete(tables) on the database db; Sheet.current_table is a
\* Many2One without ondelete, so a sheet that points to a deleted table is
\* left with no current table
table_delete(db, list) ==
    LET dropped == DropAll(Done(db.physical), db.tables, list)
    IN IF dropped.raised # "" THEN [db EXCEPT !.raised = dropped.raised]
       ELSE [db EXCEPT
                !.physical = dropped.phys,
                !.tables = delete_records(db.tables, Range(list)),
                !.sheets = [id \in DOMAIN db.sheets |->
                               IF db.sheets[id].current_table \in Range(list)
                               THEN [db.sheets[id] EXCEPT !.current_table = 0]
                               ELSE db.sheets[id]]]

\* the first search of remove_old_tables: the ids of the tables that are the
\* current_table of a sheet
current_table_ids(sh) ==
    {sh[id].current_table : id \in {i \in DOMAIN sh : sh[i].current_table # 0}}

\* a search that takes every old table, current or not
SearchEveryOld(tbls, now, days, ids) ==
    {t \in DOMAIN tbls : tbls[t].create_date < now - days}

\* the second search of remove_old_tables: the tables created before
\* now - days whose id is not among ids
search_old(tbls, now, days, ids) ==
    {t \in DOMAIN tbls : tbls[t].create_date < now - days /\ t \notin ids}

\* the database after a handler that wrote sheets, tables and physical
Commit(db) ==
    IF db.raised = ""
    THEN /\ sheets' = db.sheets
         /\ tables' = db.tables
         /\ physical' = db.physical
    ELSE UNCHANGED <<sheets, tables, physical>>

\* the names of the tables a delete of ts dropped
Dropped(db, ts) == IF db.raised = "" THEN {tables[t].name : t \in ts} ELSE {}

\* the call remove_old_tables(days) that deleted ts; again tells that the
\* call before it was the same and succeeded
Reap(days, db, ts) ==
    [Call("remove_old_tables", db.raised, "", Dropped(db, ts)) EXCEPT
        !.days = days,
        !.again = last.op = "remove_old_tables" /\ last.raised = "" /\ last.days = days]

\* Table.remove_old_tables(days), run alone in its transaction
RemoveOldTables(days) ==
    LET ids == current_table_ids(sheets)
        old == search_old(tables, tableSeq, days, ids)
        db == table_delete(Database, Ascending(old))
    IN /\ reaper.pc = "idle"
       /\ Commit(db)
       /\ last' = Reap(days, db, old)
       /\ UNCHANGED <<formulas, tableSeq, form, reaper>>

\* Table.delete(tables), called on any tables of the registry
TableDelete(ts) ==
    LET db == table_delete(Database, Ascending(ts))
    IN /\ ts # {}
       /\ ts \subseteq DOMAIN tables
       /\ Commit(db)
       /\ last' = Call("table_delete", db.raised, "", Dropped(db, ts))
       /\ UNCHANGED <<formulas, tableSeq, form, reaper>>

\* remove_old_tables statement by statement, next to the transactions of
\* other callers.  First statement: Sheet.search and the list of ids; seen is
\* the Table records as they are when the transaction starts
ReadCurrent(days) ==
    /\ reaper.pc = "idle"
    /\ reaper' = [pc |-> "search", days |-> days,
                  ids |-> current_table_ids(sheets), seen |-> tables, tables |-> {}]
    /\ UNCHANGED <<sheets, formulas, tables, tableSeq, physical, last, form>>

\* second statement: cls.search of the old tables outside the list; the
\* isolation of the transaction decides whether it reads the database as it
\* was when the transaction started or as it is now
SearchOld(isolation) ==
    LET visible == IF isolation = "snapshot" THEN reaper.seen ELSE tables
    IN /\ reaper.pc = "search"
       /\ reaper' = [reaper EXCEPT
                        !.pc = "delete",
                        !.seen = <<>>,
                        !.tables = search_old(visible, tableSeq, reaper.days, reaper.ids)]
       /\ UNCHANGED <<sheets, formulas, tables, tableSeq, physical, last, form>>

\* third statement: cls.delete(tables)
DeleteOld ==
    LET db == table_delete(Database, Ascending(reaper.tables))
    IN /\ reaper.pc = "delete"
       /\ Commit(db)
       /\ reaper' = Idle
       /\ last' = Reap(reaper.days, db, reaper.tables)
       /\ UNCHANGED <<formulas, tableSeq, form>>

(***************************************************************************)
(* The record access layer (data.py 349-384).  A key the context does not  *)
(* have, None and 0 are the same to the code (`or 0`, `if not table`) and   *)
(* are 0 here.                                                              *)
(***************************************************************************)
\* the shine.view records: the view v shows the sheet v
Views == [v \in SheetIds |-> [sheet |-> v]]

\* Data.get_view: the id of View(context.get('shine_view') or 0)
get_view(context) == context.shine_view

\* a get_sheet that asks the view before the context
ViewSheetFirst(context) ==
    IF get_view(context) # 0 THEN Views[get_view(context)].sheet
    ELSE context.shine_sheet

\* Data.get_sheet: the shine_sheet of the context, else the sheet of the
\* view, else None
get_sheet(context) ==
    IF context.shine_sheet # 0 THEN context.shine_sheet
    ELSE IF get_view(context) # 0 THEN Views[get_view(context)].sheet
    ELSE 0

\* View.get_current_table: the id of the current table of the view's sheet
get_current_table(sh, view) == sh[Views[view].sheet].current_table

\* Data.get_table: the id of the table it returns, 0 for None;
\* view.current_table.id raises when the view has no current table
get_table(sh, context) ==
    LET sheet == get_sheet(context)
        table == IF context.shine_table = 0 /\ sheet # 0
                 THEN sh[sheet].current_table
                 ELSE context.shine_table
        view == get_view(context)
    IN IF table = 0 /\ view # 0
       THEN IF get_current_table(sh, view) = 0
            THEN [raised |-> "AttributeError", table |-> 0]
            ELSE [raised |-> "", table |-> get_current_table(sh, view)]
       ELSE [raised |-> "", table |-> table]

\* the contexts Data.get_table is called in: the sheet and the view are
\* records, the table is any id
Contexts ==
    [shine_table : 0..tableSeq, shine_sheet : {0} \cup SheetIds,
     shine_view : {0} \cup DOMAIN Views]

\* Data.get_table() in a context
GetTable(context) ==
    LET got == get_table(sheets, context)
    IN /\ last' = [Call("get_table", got.raised, "", {}) EXCEPT
                      !.context = context, !.table = got.table]
       /\ UNCHANGED <<sheets, formulas, tables, tableSeq, physical, form, reaper>>

(***************************************************************************)
(* The rows of the record access layer (data.py 250-347, 386-391) on the    *)
(* physical table of a shine.table record.  A record is the id of a row, a  *)
(* group of Data.write is [records, values], a row of Data.create is a map  *)
(* from column names to values.                                             *)
(***************************************************************************)
\* the depth of calls Python allows before it raises RecursionError
MaxDepth == 3

\* the names of the fields of the table that bear a formula
formula_fields(table) ==
    {table.fields[i].name : i \in {j \in DOMAIN table.fields :
                                       HasExpression(table.fields[j].formula)}}

\* the field of a table by its name
FieldOf(table, name) ==
    table.fields[CHOOSE i \in DOMAIN table.fields : table.fields[i].name = name]

\* the row of a record
RowOf(tbl, record) ==
    tbl.rows[CHOOSE r \in DOMAIN tbl.rows : tbl.rows[r][IdColumn] = PyInt(record)]

\* the ids of the rows of a table, in the order of the table
RowIds(tbl) == [r \in DOMAIN tbl.rows |-> tbl.rows[r][IdColumn][2]]

\* UPDATE tname SET values WHERE id IN records
UpdateRows(tbl, records, values) ==
    [tbl EXCEPT !.rows =
        [r \in DOMAIN tbl.rows |->
            IF tbl.rows[r][IdColumn][2] \in Range(records)
            THEN [c \in DOMAIN tbl.rows[r] |->
                     IF c \in DOMAIN values THEN values[c] ELSE tbl.rows[r][c]]
            ELSE tbl.rows[r]]]

\* the loop of Data.write over its groups
RECURSIVE WriteGroups(_, _)
WriteGroups(tbl, args) ==
    IF args = <<>> THEN tbl
    ELSE WriteGroups(UpdateRows(tbl, Head(args).records, Head(args).values), Tail(args))

\* all_records of Data.write
RECURSIVE AllRecords(_)
AllRecords(args) ==
    IF args = <<>> THEN <<>> ELSE Head(args).records \o AllRecords(Tail(args))

\* has_formulas of Data.write: one flag for the whole call, set when a key
\* of any group is a formula field
has_formulas(table, args) ==
    \E g \in DOMAIN args : DOMAIN args[g].values \cap formula_fields(table) # {}

\* record.on_change_with(formula_fields): the derived value of each formula
\* field, from the row as it is stored
Derive(tbl, table, record) ==
    [c \in formula_fields(table) |-> on_change_with(RowOf(tbl, record), FieldOf(table, c))]

\* Data.write(*args) and Data.update_formulas(records) call each other;
\* depth counts the calls on the stack
RECURSIVE data_write(_, _, _, _)
RECURSIVE data_update_formulas(_, _, _, _)
data_write(phys, table, args, depth) ==
    LET written == [phys EXCEPT ![table.name] = WriteGroups(@, args)]
    IN IF depth > MaxDepth THEN Failed("RecursionError")
       ELSE IF ~has_formulas(table, args) /\ formula_fields(table) # {}
       THEN data_update_formulas(written, table, AllRecords(args), depth + 1)
       ELSE Done(written)

data_update_formulas(phys, table, given, depth) ==
    LET tbl == phys[table.name]
        records == IF given = <<>> THEN RowIds(tbl) ELSE given
        actions == [i \in DOMAIN records |->
                       [records |-> <<records[i]>>,
                        values |-> Derive(tbl, table, records[i])]]
    IN IF depth > MaxDepth THEN Failed("RecursionError")
       ELSE IF formula_fields(table) = {} THEN Done(phys)
       ELSE IF \E i \in DOMAIN records : \E c \in formula_fields(table) :
                   IsRaised(Derive(tbl, table, records[i])[c])
       THEN Failed("AttributeError")
       ELSE data_write(phys, table, actions, depth + 1)

\* Data.create(vlist): one INSERT per row, then update_formulas of the new
\* records; ids are the records it returns
data_create(phys, table, vlist) ==
    LET tbl == phys[table.name]
        ids == [i \in DOMAIN vlist |-> tbl.idseq + i - 1]
        inserted == [phys EXCEPT ![table.name] = InsertRows(@, vlist)]
        derived == data_update_formulas(inserted, table, ids, 1)
    IN [raised |-> derived.raised, phys |-> derived.phys, ids |-> ids]

\* Data.read(ids): the rows whose id is among ids, as the select returns them
data_read(tbl, ids) ==
    SelectSeq(tbl.rows, LAMBDA row : row[IdColumn][2] \in Range(ids))

\* a delete that removes every row
DeleteEveryRow(phys, table, records) ==
    [phys EXCEPT ![table.name].rows = <<>>]

\* Data.delete(records): DELETE WHERE id IN the ids above 0, if there are any
data_delete(phys, table, records) ==
    LET ids == {records[i] : i \in {j \in DOMAIN records : records[j] > 0}}
    IN [phys EXCEPT ![table.name].rows =
           SelectSeq(@, LAMBDA row : row[IdColumn][2] \notin ids)]

\* Data.copy(records): the rows read for the ids that are not 0, without
\* their id, are created again
data_copy(phys, table, records) ==
    LET ids == SelectSeq(records, LAMBDA x : x # 0)
        read == data_read(phys[table.name], ids)
    IN data_create(phys, table,
                   [i \in DOMAIN read |-> Restrict(read[i], DOMAIN read[i] \ {IdColumn})])

\* the ids a row of the data scenarios reaches
MaxDataRowId == 2

\* the table the calls of shine.data work on: the context names table 1
ActiveTable == tables[get_table(sheets, [NoContext EXCEPT !.shine_table = 1]).table]

\* a call of shine.data with the table 1 as shine_table: the database after
\* it unless it raised, the arguments and the records it returned
DataCall(op, done, args, result) ==
    /\ IF done.raised = "" THEN physical' = done.phys ELSE UNCHANGED physical
    /\ physical'[ActiveTable.name].idseq <= MaxDataRowId + 1
    /\ last' = [Call(op, done.raised, "", {}) EXCEPT
                   !.context = [NoContext EXCEPT !.shine_table = 1],
                   !.table = 1,
                   !.args = args,
                   !.result = IF done.raised = "" THEN result ELSE <<>>]
    /\ UNCHANGED <<sheets, formulas, tables, tableSeq, form, reaper>>

\* a group without values: the records a call is given
Records(records) == <<[records |-> records, values |-> <<>>]>>

\* Data.create(vlist)
DataCreate(vlist) ==
    /\ 1 \in DOMAIN tables
    /\ LET done == data_create(physical, ActiveTable, vlist)
       IN DataCall("data_create", done,
                   [i \in DOMAIN vlist |-> [records |-> <<>>, values |-> vlist[i]]],
                   done.ids)

\* Data.write(*args) on records that are rows of the table
DataWrite(args) ==
    /\ 1 \in DOMAIN tables
    /\ Range(AllRecords(args)) \subseteq Range(RowIds(physical[ActiveTable.name]))
    /\ DataCall("data_write", data_write(physical, ActiveTable, args, 1), args, <<>>)

\* Data.update_formulas(records) on records that are rows of the table
DataUpdateFormulas(records) ==
    /\ 1 \in DOMAIN tables
    /\ Range(records) \subseteq Range(RowIds(physical[ActiveTable.name]))
    /\ DataCall("data_update_formulas",
                data_update_formulas(physical, ActiveTable, records, 1),
                Records(records), <<>>)

\* Data.delete(records)
DataDelete(records) ==
    /\ 1 \in DOMAIN tables
    /\ DataCall("data_delete", Done(data_delete(physical, ActiveTable, records)),
                Records(records), <<>>)

\* Data.copy(records)
DataCopy(records) ==
    /\ 1 \in DOMAIN tables
    /\ LET done == data_copy(physical, ActiveTable, records)
       IN DataCall("data_copy", done, Records(records), done.ids)

\* a consumer iterates get_data() of a model source to its end
GetDataModel(matching, RECORD_CACHE_SIZE, strict) ==
    LET done == get_data_model(matching, RECORD_CACHE_SIZE, strict)
    IN /\ last' = [Call("get_data_model", done.raised, "", {}) EXCEPT
                       !.args = <<[matching |-> matching,
                                   limit |-> RECORD_CACHE_SIZE,
                                   strict |-> strict]>>,
                       !.result = done.batches]
       /\ UNCHANGED <<sheets, formulas, tables, tableSeq, physical, form, reaper>>

(***************************************************************************)
(* Adapter.get_fields (data.py 28-65), the fields of shine.data.  A         *)
(* descriptor is [kind, name, obj]: the kind of the fields class, the name  *)
(* it carries and the object it is, numbered by the field that made it (0   *)
(* for the id).  Two keys can hold the same object.                         *)
(***************************************************************************)
\* the branch of the if chain for a type: the kind of the class it
\* instantiates, "none" when no branch matches
FieldClass(type) ==
    CASE type = "char" -> "char"
      [] type = "integer" -> "integer"
      [] type = "float" -> "float"
      [] type = "icon" -> "binary"
      [] OTHER -> "none"

\* obj.name = name, seen through every key that holds the object
Rename(res, obj, name) ==
    [k \in DOMAIN res |-> IF res[k].obj = obj THEN [res[k] EXCEPT !.name = name]
                           ELSE res[k]]

\* the loop over table.fields from the i-th field on: res is the dictionary
\* so far, obj the object of the variable obj (-1 while it is unbound)
RECURSIVE FieldsLoop(_, _, _, _)
FieldsLoop(fields, i, res, obj) ==
    IF i > Len(fields) THEN [raised |-> "", res |-> res]
    ELSE LET field == fields[i]
             kind == FieldClass(field.type)
         IN IF kind = "none" /\ obj = -1
            THEN [raised |-> "UnboundLocalError", res |-> <<>>]
            ELSE IF kind = "none"
            THEN LET renamed == Rename(res, obj, field.name)
                     held == renamed[CHOOSE k \in DOMAIN renamed : renamed[k].obj = obj]
                 IN FieldsLoop(fields, i + 1,
                               [k \in DOMAIN res \cup {field.name} |->
                                   IF k = field.name THEN held ELSE renamed[k]],
                               obj)
            ELSE FieldsLoop(fields, i + 1,
                            [k \in DOMAIN res \cup {field.name} |->
                                IF k = field.name
                                THEN [kind |-> kind, name |-> field.name, obj |-> i]
                                ELSE res[k]],
                            i)

\* Adapter.get_fields for the fields of the active table: after the loop the
\* descriptor of the id is stored under the name of the last field
Adapter_get_fields(fields) ==
    LET looped == FieldsLoop(fields, 1, <<>>, -1)
        res == looped.res
        last_name == fields[Len(fields)].name
    IN IF looped.raised # "" THEN looped
       ELSE IF IdColumn \in DOMAIN res THEN looped
       ELSE IF fields = <<>> THEN [raised |-> "UnboundLocalError", res |-> <<>>]
       ELSE [raised |-> "",
             res |-> [k \in DOMAIN res |->
                         IF k = last_name
                         THEN [kind |-> "integer", name |-> IdColumn, obj |-> 0]
                         ELSE res[k]]]

\* the fields of shine.data are read while table 1 is the active table
GetFields ==
    LET got == Adapter_get_fields(tables[1].fields)
    IN /\ 1 \in DOMAIN tables
       /\ last' = [Call("get_fields", got.raised, "", {}) EXCEPT
                      !.context = [NoContext EXCEPT !.shine_table = 1],
                      !.table = get_table(sheets, [NoContext EXCEPT !.shine_table = 1]).table,
                      !.result = got.res]
       /\ UNCHANGED <<sheets, formulas, tables, tableSeq, physical, form, reaper>>

\* Table.copy_from(from_table) on a new table and the table it replaces
CopyFrom ==
    LET copied == copy_from(physical, tables[2], tables[1])
    IN /\ last.op = "init"
       /\ DOMAIN tables = {1, 2}
       /\ IF copied.raised = "" THEN physical' = copied.phys ELSE UNCHANGED physical
       /\ last' = Call("copy_from", copied.raised, "", {})
       /\ UNCHANGED <<sheets, formulas, tables, tableSeq, form, reaper>>

(***************************************************************************)
(* The inputs of the model.                                                 *)
(***************************************************************************)
\* a direct formula, as Sheet.update_formulas makes it for the query dataset
FormulaA == NewFormula(AliasA, NoExpression, "integer", TRUE, 0)

\* a direct formula that is not stored
FormulaANotStored == NewFormula(AliasA, NoExpression, "None", FALSE, 0)

\* a direct formula of the wide dataset, placed after b
FormulaC == NewFormula(AliasC, NoExpression, "char", TRUE, 3)

\* a direct formula placed after b
FormulaALate == NewFormula(AliasA, NoExpression, "integer", TRUE, 3)

\* a stored formula whose alias is the name of an audit column
FormulaCreateUid == NewFormula(AuditColumns[1].name, NoExpression, "char", TRUE, 1)

\* b = a * 2
FormulaB == NewFormula(AliasB, Expr("double", << <<"A">> >>), "float", TRUE, 2)

\* b reads itself
FormulaBSelf == NewFormula(AliasB, Expr("double", << <<"B">> >>), "float", TRUE, 2)

\* b reads an alias no formula has
FormulaBMissing == NewFormula(AliasB, Expr("double", << <<"Z">> >>), "float", TRUE, 2)

\* b has a syntax error
FormulaBSyntax == NewFormula(AliasB, SyntaxErrorExpr, "float", TRUE, 2)

\* b calls a function the library does not know
FormulaBUnknown == NewFormula(AliasB, UnknownMethodExpr({"FOO"}), "float", TRUE, 2)

\* formulas Formula.validate has to reject
FormulaDigitFirst == NewFormula(<<"1", "a">>, NoExpression, "integer", TRUE, 0)

FormulaUpperCase == NewFormula(<<"A">>, NoExpression, "integer", TRUE, 0)

FormulaDash == NewFormula(<<"a", "-">>, NoExpression, "integer", TRUE, 0)

FormulaStoreNoType == NewFormula(AliasB, NoExpression, "None", TRUE, 2)

\* the formulas a user saves: a column of the dataset and one derived from it
ComputePool == {FormulaA, FormulaB}

AliasD == <<"d">>

AliasE == <<"e">>

\* a derived formula that reads the derived formula b
FormulaD == NewFormula(AliasD, Expr("double", << <<"B">> >>), "float", TRUE, 4)

\* a derived formula whose input is the text column c: its value is an XlError
FormulaE == NewFormula(AliasE, Expr("double", << <<"C">> >>), "float", TRUE, 4)

\* the same formula with the type char
FormulaEChar == NewFormula(AliasE, Expr("double", << <<"C">> >>), "char", TRUE, 4)

\* the formulas a user saves in the compute scenario: a derived formula
\* between two direct ones
WidePool == {FormulaA, FormulaB, FormulaC}

\* the formulas a user saves in the formula scenario: expressions that read
\* an earlier, a later, the own and no alias, and expressions that do not compile
FormulaPool ==
    { FormulaA, FormulaALate, FormulaB, FormulaBSelf, FormulaBMissing,
      FormulaBSyntax, FormulaBUnknown }

\* the formulas a user saves in the column scenario: stored and not stored,
\* aliases of every shape, an alias the table already has as a column
ColumnPool ==
    { FormulaA, FormulaANotStored, FormulaCreateUid, FormulaB, FormulaDigitFirst,
      FormulaUpperCase, FormulaDash, FormulaStoreNoType }

\* the formulas a user saves in the scenario of two sheets
SheetsPool == {FormulaA}

\* the characters typed into a name
NameChars == {"a", "B", "1", "_", " ", "e_acute"}

Names == UNION {[1..n -> NameChars] : n \in 0..MaxNameLen}

\* the lists of distinct sheets a handler is called with
SheetLists(ids) ==
    {<<id>> : id \in ids} \cup {<<i, j>> : <<i, j>> \in {p \in ids \X ids : p[1] # p[2]}}

(***************************************************************************)
(* Specifications.                                                          *)
(***************************************************************************)
InitOn(datasets) ==
    /\ sheets \in [SheetIds -> {NewSheet(d) : d \in datasets}]
    /\ formulas = [id \in SheetIds |-> <<>>]
    /\ tables = <<>>
    /\ tableSeq = 1
    /\ physical = <<>>
    /\ last = Call("init", "", "", {})
    /\ form = [name |-> <<>>, alias |-> <<>>]
    /\ reaper = Idle

\* the handlers, called on the sheets ids with formulas of pool
NextOn(ids, pool, max_revision) ==
    \/ \E list \in SheetLists(ids) : Activate(list, max_revision)
    \/ \E list \in SheetLists(ids) : Draft(list)
    \/ \E list \in SheetLists(ids) : \E late \in BlockPoints : Compute(list, late)
    \/ \E list \in SheetLists(ids) : UpdateFormulas(list)
    \/ \E id \in ids : \E f \in pool : FormulaCreate(id, f)
    \/ \E id \in ids : \E i \in 1..3 : FormulaDelete(id, i)

\* one sheet, with and without a dataset, activated and computed
Init == InitOn({"None"})

Next ==
    \/ NextOn({1}, ComputePool, MaxRevision)
    \/ \E d \in {"None", "query"} : SetDataset(1, d)

Spec == Init /\ [][Next]_vars

\* the formula scenario: one sheet without dataset, every formula of the pool
InitFormulas == InitOn({"None"})

NextFormulas == NextOn({1}, FormulaPool, MaxFormulaRevision)

SpecFormulas == InitFormulas /\ [][NextFormulas]_vars

\* the column scenario: one sheet without dataset, aliases and types of every shape
InitColumns == InitOn({"None"})

NextColumns == NextOn({1}, ColumnPool, MaxFormulaRevision)

SpecColumns == InitColumns /\ [][NextColumns]_vars

\* sheet.formulas after the formulas of S have been saved
RECURSIVE SavedFormulas(_)
SavedFormulas(S) ==
    IF S = {} THEN <<>>
    ELSE LET f == CHOOSE x \in S : TRUE IN InsertOrdered(SavedFormulas(S \ {f}), f)

\* the compute scenario: one sheet on the wide dataset whose formulas have
\* been saved; it is activated, computed, reset to draft and activated again
InitCompute ==
    /\ sheets = [id \in SheetIds |-> NewSheet("wide")]
    /\ formulas \in {[id \in SheetIds |-> IF id = 1 THEN SavedFormulas(S) ELSE <<>>] :
                        S \in SUBSET WidePool}
    /\ tables = <<>>
    /\ tableSeq = 1
    /\ physical = <<>>
    /\ last = Call("init", "", "", {})
    /\ form = [name |-> <<>>, alias |-> <<>>]
    /\ reaper = Idle

NextCompute ==
    \/ \E list \in SheetLists({1}) : Activate(list, MaxFormulaRevision)
    \/ \E list \in SheetLists({1}) : Draft(list)
    \/ \E list \in SheetLists({1}) : \E late \in BlockPoints : Compute(list, late)
    \/ \E list \in SheetLists({1}) : UpdateFormulas(list)

SpecCompute == InitCompute /\ [][NextCompute]_vars

\* the sets of formulas of the derived scenario
DerivedPools ==
    { {FormulaA, FormulaB, FormulaC}, {FormulaA, FormulaB, FormulaD},
      {FormulaA, FormulaC, FormulaE}, {FormulaA, FormulaC, FormulaEChar},
      {FormulaA, FormulaB, FormulaC, FormulaD}, {FormulaA, FormulaB, FormulaC, FormulaE} }

\* the derived scenario: one sheet on the wide dataset with a derived
\* formula that reads a direct one, a derived one, or a text; it is
\* activated, computed, reset to draft, completed by update_formulas and
\* activated again
InitDerived ==
    /\ sheets = [id \in SheetIds |-> NewSheet("wide")]
    /\ formulas \in {[id \in SheetIds |-> IF id = 1 THEN SavedFormulas(S) ELSE <<>>] :
                        S \in DerivedPools}
    /\ tables = <<>>
    /\ tableSeq = 1
    /\ physical = <<>>
    /\ last = Call("init", "", "", {})
    /\ form = [name |-> <<>>, alias |-> <<>>]
    /\ reaper = Idle

NextDerived ==
    \/ \E list \in SheetLists({1}) : Activate(list, MaxFormulaRevision)
    \/ \E list \in SheetLists({1}) : Draft(list)
    \/ \E list \in SheetLists({1}) : \E late \in BlockPoints : Compute(list, late)
    \/ \E list \in SheetLists({1}) : UpdateFormulas(list)

SpecDerived == InitDerived /\ [][NextDerived]_vars

\* the fields of the tables copy_from is given: a with one of three types or
\* absent, b and c present or absent
CopyFields ==
    { SelectSeq(<<[name |-> AliasA, type |-> ta, formula |-> NoExpression],
                  [name |-> AliasB, type |-> tb, formula |-> NoExpression],
                  [name |-> AliasC, type |-> tc, formula |-> NoExpression]>>,
                LAMBDA f : f.type # "None") :
        ta \in {"None", "integer", "char", "icon"},
        tb \in {"None", "char"}, tc \in {"None", "char"} }

\* the value the n-th row of the old table has in a column of this type
CopyValue(type, n) == IF type = "integer" THEN PyInt(n) ELSE PyStr(n)

\* the copy scenario: an old table with rows and a new, empty table, each
\* made by create_table of its fields
InitCopy ==
    /\ sheets = [id \in SheetIds |-> NewSheet("None")]
    /\ formulas = [id \in SheetIds |-> <<>>]
    /\ \E from \in CopyFields, to \in CopyFields, n \in 1..MaxCopyRows :
          LET old == [name |-> data_table_name(1, 1), fields |-> from, create_date |-> 1]
              new == [name |-> data_table_name(1, 2), fields |-> to, create_date |-> 2]
              row(i) == [c \in FieldNames(from) |->
                            CopyValue(from[CHOOSE k \in DOMAIN from : from[k].name = c].type, i)]
              made == create_table(create_table(<<>>, old.name, from), new.name, to)
          IN /\ tables = <<old, new>>
             /\ physical = [made EXCEPT ![old.name] =
                                InsertRows(@, [i \in 1..n |-> row(i)])]
    /\ tableSeq = 3
    /\ last = Call("init", "", "", {})
    /\ form = [name |-> <<>>, alias |-> <<>>]
    /\ reaper = Idle

NextCopy == CopyFrom

SpecCopy == InitCopy /\ [][NextCopy]_vars

\* the revisions a sheet of the reaper scenario reaches
MaxReaperRevision == 3

\* the row ids a table of the reaper scenario reaches
MaxReaperRowId == 2

\* two sheets whose formula has been saved, the first one on the query dataset
InitTables ==
    /\ sheets = [id \in SheetIds |-> NewSheet(IF id = 1 THEN "query" ELSE "None")]
    /\ formulas = [id \in SheetIds |-> SavedFormulas(SheetsPool)]
    /\ tables = <<>>
    /\ tableSeq = 1
    /\ physical = <<>>
    /\ last = Call("init", "", "", {})
    /\ form = [name |-> <<>>, alias |-> <<>>]
    /\ reaper = Idle

\* revisions the sheets of the state scenario may reach
MaxStatesRevision == 3

\* the state scenario: sheet 1 is in draft; sheet 2 is in draft or is a
\* record that was written with the state canceled, which no handler of the
\* module sets; both are activated and reset to draft, alone and together
InitStates ==
    /\ sheets \in {[id \in SheetIds |->
                       IF id = 1 THEN NewSheet("None")
                       ELSE [NewSheet("None") EXCEPT !.state = state]] :
                    state \in {"draft", "canceled"}}
    /\ formulas = [id \in SheetIds |-> SavedFormulas(SheetsPool)]
    /\ tables = <<>>
    /\ tableSeq = 1
    /\ physical = <<>>
    /\ last = Call("init", "", "", {})
    /\ form = [name |-> <<>>, alias |-> <<>>]
    /\ reaper = Idle

NextStates ==
    \/ \E list \in SheetLists(SheetIds) : ActivateGiven(list, MaxStatesRevision, list)
    \/ \E list \in SheetLists(SheetIds) : Draft(list)

SpecStates == InitStates /\ [][NextStates]_vars

\* the copy scenario of sheets: sheet 1 has formulas and is activated and
\* reset to draft; it is copied, and the copy is activated and reset too
InitSheetCopy ==
    /\ sheets = [id \in SheetIds |-> NewSheet("None")]
    /\ formulas = [id \in SheetIds |-> IF id = 1 THEN SavedFormulas(SheetsPool) ELSE <<>>]
    /\ tables = <<>>
    /\ tableSeq = 1
    /\ physical = <<>>
    /\ last = Call("init", "", "", {})
    /\ form = [name |-> <<>>, alias |-> <<>>]
    /\ reaper = Idle

NextSheetCopy ==
    \/ \E list \in SheetLists(SheetIds) : Activate(list, MaxStatesRevision)
    \/ \E list \in SheetLists(SheetIds) : Draft(list)
    \/ SheetCopy(1, 2)

SpecSheetCopy == InitSheetCopy /\ [][NextSheetCopy]_vars

\* the formulas a user saves in the update scenario
UpdatePool == {FormulaA, FormulaB}

\* the update scenario: two sheets in draft, each with or without a dataset,
\* whose formulas the user saves and deletes and update_formulas completes
InitUpdate ==
    /\ sheets \in [SheetIds -> {NewSheet(d) : d \in {"None", "query", "wide"}}]
    /\ formulas = [id \in SheetIds |-> <<>>]
    /\ tables = <<>>
    /\ tableSeq = 1
    /\ physical = <<>>
    /\ last = Call("init", "", "", {})
    /\ form = [name |-> <<>>, alias |-> <<>>]
    /\ reaper = Idle

NextUpdate ==
    \/ \E list \in SheetLists(SheetIds) : UpdateFormulasGiven(list, list)
    \/ \E id \in SheetIds : \E f \in UpdatePool : FormulaCreate(id, f)
    \/ \E id \in SheetIds : \E i \in 1..3 : FormulaDelete(id, i)

SpecUpdate == InitUpdate /\ [][NextUpdate]_vars

\* the revisions and the views of the user per sheet of the view scenario
MaxViewsRevision == 3
MaxViews == 1

\* the view scenario: two sheets in draft with their formulas are activated
\* and reset to draft, and the user adds views to them
InitViews ==
    /\ sheets = [id \in SheetIds |-> NewSheet("None")]
    /\ formulas = [id \in SheetIds |-> SavedFormulas(SheetsPool)]
    /\ tables = <<>>
    /\ tableSeq = 1
    /\ physical = <<>>
    /\ last = Call("init", "", "", {})
    /\ form = [name |-> <<>>, alias |-> <<>>]
    /\ reaper = Idle

NextViews ==
    \/ \E list \in SheetLists(SheetIds) : ActivateGiven(list, MaxViewsRevision, list)
    \/ \E list \in SheetLists(SheetIds) : Draft(list)
    \/ \E id \in SheetIds : ViewCreate(id, MaxViews)

SpecViews == InitViews /\ [][NextViews]_vars

\* the rows and the groups a call of the rows scenario is given
MaxGroups == 2

\* the values a call of the rows scenario sets: the column a, the derived
\* column b, or both
GivenValues ==
    { (AliasA :> PyInt(1)), (AliasA :> PyInt(2)), (AliasB :> PyFloat(9)),
      (AliasA :> PyInt(1)) @@ (AliasB :> PyFloat(9)) }

\* the lists of at most MaxGroups elements of S
Lists(S) == UNION {[1..n -> S] : n \in 0..MaxGroups}

\* the sheet 1 is active on its table 1 with the formulas fs, the table has
\* no rows yet
InitActive(fs) ==
    /\ sheets = [id \in SheetIds |->
                    IF id = 1 THEN [NewSheet("None") EXCEPT
                                       !.state = "active", !.revision = 2,
                                       !.current_table = 1,
                                       !.views = reset_views([views |-> <<>>,
                                                              current_table |-> 1])]
                    ELSE NewSheet("None")]
    /\ formulas = [id \in SheetIds |-> IF id = 1 THEN fs ELSE <<>>]
    /\ tables = <<[name |-> data_table_name(1, 2), fields |-> TableFields(fs),
                   create_date |-> 1]>>
    /\ physical = create_table(<<>>, data_table_name(1, 2), TableFields(fs))
    /\ tableSeq = 2
    /\ last = Call("init", "", "", {})
    /\ form = [name |-> <<>>, alias |-> <<>>]
    /\ reaper = Idle

\* the rows scenario: rows of the table of a and b = a * 2, or of the table
\* of a alone, are created, written, re-derived, copied and deleted
InitRows == \E fs \in {<<FormulaA, FormulaB>>, <<FormulaA>>} : InitActive(fs)

\* the values of GivenValues that name columns of the table only
ValuesFor(table) == {v \in GivenValues : DOMAIN v \subseteq FieldNames(table.fields)}

\* the groups Data.write is given: one record and the value of one column
Groups(table) ==
    [records : {<<x>> : x \in 1..MaxDataRowId},
     values : {v \in ValuesFor(table) : Cardinality(DOMAIN v) = 1}]

NextRows ==
    \/ \E vlist \in Lists(ValuesFor(ActiveTable)) : DataCreate(vlist)
    \/ \E args \in Lists(Groups(ActiveTable)) : DataWrite(args)
    \/ \E records \in Lists(1..MaxDataRowId) : DataUpdateFormulas(records)
    \/ \E records \in Lists(-1..MaxDataRowId) : DataDelete(records)
    \/ \E records \in Lists(0..MaxDataRowId) : DataCopy(records)

SpecRows == InitRows /\ [][NextRows]_vars

\* the delete scenario: rows are created one by one and deleted by lists of
\* ids, some of them not above 0 and some of no row
NextRowsDelete ==
    \/ \E v \in ValuesFor(ActiveTable) : DataCreate(<<v>>)
    \/ \E records \in Lists(-1..MaxDataRowId) : DataDelete(records)

SpecRowsDelete == InitRows /\ [][NextRowsDelete]_vars

\* the revisions of the migration scenario
MaxMigrateRevision == 3

\* the revisions of the insert scenario
MaxInsertRevision == 3

\* the insert scenario: the sheet 1, on the query or on a model source, has
\* the direct formula a and, in one case, the derived formula b; it is
\* activated, reset to draft and computed
InitInsert ==
    /\ sheets \in {[id \in SheetIds |-> NewSheet(IF id = 1 THEN d ELSE "None")] :
                    d \in {"query", "model", "strict"}}
    /\ formulas \in {[id \in SheetIds |-> IF id = 1 THEN SavedFormulas(S) ELSE <<>>] :
                        S \in {{FormulaA}, {FormulaA, FormulaB}}}
    /\ tables = <<>>
    /\ tableSeq = 1
    /\ physical = <<>>
    /\ last = Call("init", "", "", {})
    /\ form = [name |-> <<>>, alias |-> <<>>]
    /\ reaper = Idle

NextInsert ==
    \/ Activate(<<1>>, MaxInsertRevision)
    \/ Draft(<<1>>)
    \/ \E late \in BlockPoints : ComputeGiven(<<1>>, late, <<1>>)

SpecInsert == InitInsert /\ [][NextInsert]_vars

\* the agreement scenario: the sheet 1 is active with the derived column b
\* and, in one case, the column d derived from b; rows are created and
\* written with values of the direct column a only, one row per call
InitAgree ==
    \E fs \in {<<FormulaA, FormulaB>>, <<FormulaA, FormulaB, FormulaD>>} : InitActive(fs)

DirectValues == {(AliasA :> PyInt(1)), (AliasA :> PyInt(2))}

NextAgree ==
    \/ \E v \in DirectValues : DataCreate(<<v>>)
    \/ \E x \in 1..MaxDataRowId : \E v \in DirectValues :
          DataWrite(<<[records |-> <<x>>, values |-> v]>>)
    \/ \E x \in 1..MaxDataRowId : DataDelete(<<x>>)

SpecAgree == InitAgree /\ [][NextAgree]_vars

\* the revision of the sheet with a dataset in the migration scenario
MaxDatasetRevision == 2

\* the formulas a user saves in the migration scenario
MigratePool == {FormulaB, FormulaC}

\* the values of the rows a user creates in the migration scenario
MigrateValues == {(AliasA :> PyInt(2))}

\* the migration scenario: sheet 1 has no dataset, sheet 2 has one; their
\* formulas have been saved.  The sheets are activated, rows are created in
\* the table 1, the sheets are reset to draft, the formulas of sheet 1 are
\* changed, and sheet 1 is activated again
InitMigrate ==
    /\ sheets = [id \in SheetIds |-> NewSheet(IF id = 1 THEN "None" ELSE "wide")]
    /\ formulas \in {[id \in SheetIds |->
                         IF id = 1 THEN SavedFormulas(S) ELSE SavedFormulas({FormulaA})] :
                        S \in {{FormulaA}, {FormulaA, FormulaB}}}
    /\ tables = <<>>
    /\ tableSeq = 1
    /\ physical = <<>>
    /\ last = Call("init", "", "", {})
    /\ form = [name |-> <<>>, alias |-> <<>>]
    /\ reaper = Idle

NextMigrate ==
    \/ ActivateGiven(<<1>>, MaxMigrateRevision, <<1>>)
    \/ ActivateGiven(<<2>>, MaxDatasetRevision, <<2>>)
    \/ \E list \in SheetLists(SheetIds) : Draft(list)
    \/ \E v \in MigrateValues : DataCreate(<<v>>)
    \/ \E f \in MigratePool : FormulaCreate(1, f)
    \/ \E i \in 1..2 : FormulaDelete(1, i)

SpecMigrate == InitMigrate /\ [][NextMigrate]_vars

\* the ids of the records of the model a model source reads
MaxRecords == 5

\* the greatest batch size configured
MaxCacheSize == 3

\* the ids of S in ascending order, the default order of get_data_model
RECURSIVE Ascend(_)
Ascend(S) ==
    IF S = {} THEN <<>>
    ELSE LET m == CHOOSE x \in S : \A y \in S : x <= y
         IN <<m>> \o Ascend(S \ {m})

\* the model scenario: get_data of a model source is consumed, for every
\* set of matching records and every configured batch size
InitModel ==
    /\ sheets = [id \in SheetIds |-> NewSheet("None")]
    /\ formulas = [id \in SheetIds |-> <<>>]
    /\ tables = <<>>
    /\ tableSeq = 1
    /\ physical = <<>>
    /\ last = Call("init", "", "", {})
    /\ form = [name |-> <<>>, alias |-> <<>>]
    /\ reaper = Idle

NextModel ==
    \E S \in SUBSET (1..MaxRecords), size \in 1..MaxCacheSize, strict \in BOOLEAN :
        GetDataModel(Ascend(S), PyStr(size), strict)

SpecModel == InitModel /\ [][NextModel]_vars

\* the fields a table of the adapter scenario has
MaxFields == 2

\* the adapter scenario: a table with fields of every type of the model and
\* of a type the if chain of get_fields has no branch for
InitAdapter ==
    /\ sheets = [id \in SheetIds |-> NewSheet("None")]
    /\ formulas = [id \in SheetIds |-> <<>>]
    /\ \E n \in 0..MaxFields :
          \E names \in {q \in [1..n -> {AliasA, AliasB, AliasC}] :
                           \A i, j \in 1..n : q[i] = q[j] => i = j} :
          \E types \in [1..n -> FieldTypes \cup {"image"}] :
             LET fields == [i \in 1..n |-> [name |-> names[i], type |-> types[i],
                                            formula |-> NoExpression]]
             IN /\ tables = <<[name |-> data_table_name(1, 2), fields |-> fields,
                               create_date |-> 1]>>
                /\ physical = create_table(<<>>, data_table_name(1, 2), fields)
    /\ tableSeq = 2
    /\ last = Call("init", "", "", {})
    /\ form = [name |-> <<>>, alias |-> <<>>]
    /\ reaper = Idle

NextAdapter == GetFields

SpecAdapter == InitAdapter /\ [][NextAdapter]_vars

\* the reaper scenario: the sheets are activated again and again and
\* computed, tables are reaped, one call after the other; the dataset never
\* blocks
NextReaper ==
    \/ \E list \in SheetLists(SheetIds) : Activate(list, MaxReaperRevision)
    \/ \E list \in SheetLists(SheetIds) : Draft(list)
    \/ \E list \in SheetLists(SheetIds) :
          /\ Compute(list, "none")
          /\ \A n \in DOMAIN physical' : physical'[n].idseq <= MaxReaperRowId + 1
    \/ \E days \in 0..MaxDays : RemoveOldTables(days)

SpecReaper == InitTables /\ [][NextReaper]_vars

\* the delete scenario: the sheets are activated again and again, tables
\* are reaped and deleted, one call after the other
NextDelete ==
    \/ \E list \in SheetLists(SheetIds) : Activate(list, MaxReaperRevision)
    \/ \E list \in SheetLists(SheetIds) : Draft(list)
    \/ \E days \in 0..MaxDays : RemoveOldTables(days)
    \/ \E t \in DOMAIN tables : TableDelete({t})

SpecDelete == InitTables /\ [][NextDelete]_vars

\* the data scenario: the sheets are activated again and again, the record
\* access layer looks for its table in every context
NextData ==
    \/ \E list \in SheetLists(SheetIds) : Activate(list, MaxReaperRevision)
    \/ \E list \in SheetLists(SheetIds) : Draft(list)
    \/ \E context \in Contexts : GetTable(context)

SpecData == InitTables /\ [][NextData]_vars

\* the race scenario: the statements of remove_old_tables interleaved with
\* the handlers of one sheet
InitRace == InitOn({"None"})

NextRace ==
    \/ NextOn({1}, SheetsPool, MaxSheetsRevision)
    \/ \E days \in 0..MaxDays : ReadCurrent(days)
    \/ \E isolation \in {"snapshot", "committed"} : SearchOld(isolation)
    \/ DeleteOld

SpecRace == InitRace /\ [][NextRace]_vars

\* two sheets without dataset, activated again and again
InitSheets == InitOn({"None"})

NextSheets == NextOn(SheetIds, SheetsPool, MaxSheetsRevision)

SpecSheets == InitSheets /\ [][NextSheets]_vars

\* the form scenario: a name is typed and the alias derived from it
InitForm ==
    /\ sheets = [id \in SheetIds |-> NewSheet("None")]
    /\ formulas = [id \in SheetIds |-> <<>>]
    /\ tables = <<>>
    /\ tableSeq = 1
    /\ physical = <<>>
    /\ last = Call("init", "", "", {})
    /\ form \in [name : Names, alias : {<<>>, <<"k">>}]
    /\ reaper = Idle

NextForm == OnChangeName

SpecForm == InitForm /\ [][NextForm]_vars

(***************************************************************************)
(* Properties.                                                              *)
(***************************************************************************)
\* the step is a call of the handler op
Called(op) == last'.op = op

\* the handler of the step ended without raising
Succeeded == last'.raised = ""

\* C1: an activation that takes a sheet to active leaves its revision
\* strictly greater than before, a successful activate of a draft sheet is
\* such an activation, and every other step (draft, compute,
\* update_formulas, a rejected activate, a formula or dataset edit) leaves
\* the revision of every sheet as it was
C1_RevisionIncreases ==
    [][ /\ \A id \in SheetIds :
              IF sheets[id].state # "active" /\ sheets'[id].state = "active"
              THEN /\ last'.op = "activate"
                   /\ sheets'[id].revision > sheets[id].revision
              ELSE sheets'[id].revision = sheets[id].revision
        /\ (Called("activate") /\ Succeeded /\ sheets[1].state = "draft")
              => sheets'[1].state = "active"
      ]_vars

C1_Witness ==
    /\ last.op = "activate"
    /\ last.raised = ""
    /\ sheets[1].revision = MaxRevision
    /\ sheets[1].state = "active"

\* data_table_name gives different (sheet, revision) pairs different names
TableNamesDiffer ==
    \A i, j \in 0..MaxNameNumber : \A r, q \in 1..MaxNameNumber :
        data_table_name(i, r) = data_table_name(j, q) => (i = j /\ r = q)

\* C2: the current table of a sheet is named from the sheet id and the
\* revision the activation gave it, no two tables of the registry share a
\* name, every table ever created is still there, and no activation ever
\* dropped an existing table when it created its own
C2_TableNamesDistinct ==
    /\ TableNamesDiffer
    /\ \A id \in SheetIds :
          sheets[id].current_table # 0 =>
              tables[sheets[id].current_table].name
                  = data_table_name(id, sheets[id].revision)
    /\ \A t, u \in DOMAIN tables : tables[t].name = tables[u].name => t = u
    /\ DOMAIN physical = {tables[t].name : t \in DOMAIN tables}
    /\ last.dropped = {}

C2_Witness ==
    /\ last.op = "activate"
    /\ last.raised = ""
    /\ sheets[1].revision = MaxSheetsRevision
    /\ sheets[2].revision > 1
    /\ Cardinality(DOMAIN physical) >= MaxSheetsRevision

\* the aliases an '='-expression reads, as formulas are named
Reads(f) ==
    IF StartsWithEq(f.expression)
    THEN {Lower(f.expression.inputs[k]) : k \in DOMAIN f.expression.inputs}
    ELSE {}

\* some '='-formula reads an alias no formula strictly before it has
ReadsUndeclared(fs) ==
    \E i \in DOMAIN fs : \E a \in Reads(fs[i]) : \A j \in 1..(i - 1) : fs[j].alias # a

\* C3: an activate of a sheet one of whose '='-formulas reads an alias that
\* no formula strictly before it has (a later formula's, its own, or
\* nobody's) raises the user error shine.invalid_formula and leaves the
\* sheets (state, revision, current_table) and the tables as they were
C3_UndeclaredInputRejected ==
    [][ (Called("activate") /\ ReadsUndeclared(formulas[1]))
            => /\ last'.raised = "UserError"
               /\ last'.error = "shine.invalid_formula"
               /\ UNCHANGED <<sheets, tables, tableSeq, physical>>
      ]_vars

C3_Witness ==
    /\ last.op = "activate"
    /\ last.error = "shine.invalid_formula"
    /\ ReadsUndeclared(formulas[1])
    /\ \A i \in DOMAIN formulas[1] :
          formulas[1][i].expression.kind = "formula" =>
              /\ formulas[1][i].expression.syntax
              /\ formulas[1][i].expression.methods = {}

\* some formula does not compile: a syntax error or an unknown function
CompileError(fs) ==
    \E i \in DOMAIN fs :
        /\ StartsWithEq(fs[i].expression)
        /\ (~fs[i].expression.syntax \/ fs[i].expression.methods # {})

\* C4: an activate of a sheet one of whose formulas has a syntax error or
\* calls an unknown function raises a user error, creates no table and
\* leaves the sheet in draft at its revision
C4_CompileErrorRejected ==
    [][ (Called("activate") /\ CompileError(formulas[1]))
            => /\ last'.raised = "UserError"
               /\ sheets'[1].state = "draft"
               /\ UNCHANGED <<sheets, tables, tableSeq, physical>>
      ]_vars

C4_Witness ==
    /\ last.op = "activate"
    /\ last.raised = "UserError"
    /\ CompileError(formulas[1])
    /\ ~ReadsUndeclared(formulas[1])

\* the formulas of a sheet that are stored
Stored(fs) ==
    LET IsStored(f) == f.store IN SelectSeq(fs, IsStored)

\* the columns a table of these formulas is said to have after the id column:
\* the four audit columns, then one per stored formula
ExpectedColumns(fs) ==
    AuditColumns
        \o [i \in DOMAIN Stored(fs) |->
               [name |-> Stored(fs)[i].alias, type |-> FIELD_TYPE_SQL(Stored(fs)[i].type)]]

\* C5: after a successful activate the current table of the sheet has,
\* besides the id column, the four audit columns and exactly one column per
\* stored formula, with the formula's alias and declared type, in sheet
\* order, and none for the formulas that are not stored
C5_StoredColumns ==
    (last.op = "activate" /\ last.raised = "" /\ sheets[1].current_table # 0)
        => Tail(physical[tables[sheets[1].current_table].name].columns)
               = ExpectedColumns(formulas[1])

\* C6: no sheet has two formulas with the same alias
C6_AliasUnique ==
    \A id \in SheetIds : \A i, j \in DOMAIN formulas[id] :
        formulas[id][i].alias = formulas[id][j].alias => i = j

C6_Witness ==
    /\ last.op = "formula_save"
    /\ last.error = "shine.sheet_alias_uniq"
    /\ Len(formulas[1]) = Cardinality(ComputePool)

\* the alias is made of a-z, 0-9 and '_' and starts with a letter or '_'
IsSymbol(alias) ==
    /\ alias # <<>>
    /\ \A i \in DOMAIN alias : alias[i] \in VALID_SYMBOLS
    /\ alias[1] \in VALID_FIRST_SYMBOLS \cup {"_"}

\* C7: no formula is saved whose alias has a character outside [a-z_0-9] or
\* a first character that is neither a letter nor an underscore
C7_AliasIsSymbol ==
    \A id \in SheetIds : \A i \in DOMAIN formulas[id] : IsSymbol(formulas[id][i].alias)

\* C8: the alias convert_to_symbol gives a name is made of a-z, 0-9 and '_'
\* and starts with a letter or an underscore
C8_ConvertToSymbol ==
    form.alias = convert_to_symbol(form.name) => IsSymbol(form.alias)

\* C9: every saved formula that is stored has a type
C9_StoredHasType ==
    \A id \in SheetIds : \A i \in DOMAIN formulas[id] :
        formulas[id][i].store => formulas[id][i].type # "None"

C9_Witness ==
    /\ last.op = "formula_save"
    /\ last.raised = "UserError"
    /\ last.error = "shine.invalid_store"
    /\ formulas[1] # <<>>

\* the rows of a table without the id the sequence gave them
Values(rows) ==
    [i \in DOMAIN rows |-> Restrict(rows[i], DOMAIN rows[i] \ {IdColumn})]

Derived(f, row) ==
    LET e == f.expression
    IN FIELD_TYPE_PYTHON(f.type,
           IF StartsWithEq(e)
           THEN Eval(e, [k \in DOMAIN e.inputs |-> row[Lower(e.inputs[k])]])
           ELSE e.text)

\* C11: after a completed compute the table of the sheet holds one row per
\* record of the dataset, in the order of the dataset, and in each row every
\* direct column has the record's value for its alias and every derived
\* column has its own formula's value on that row, coerced to its type
C11_ComputedRows ==
    (last.op = "compute" /\ last.raised = "") =>
        LET fs == formulas[1]
            table == physical[data_table_name(1, sheets[1].revision)]
            records == Flatten(get_data(sheets[1].dataset))
        IN /\ Len(table.rows) = Len(records)
           /\ \A i \in DOMAIN records : \A k \in DOMAIN fs :
                 table.rows[i][fs[k].alias] =
                     IF IsDirect(fs[k]) THEN records[i][fs[k].alias]
                     ELSE Derived(fs[k], table.rows[i])

C11_Witness ==
    /\ last.op = "compute"
    /\ last.raised = ""
    /\ Aliases(formulas[1]) = <<AliasA, AliasB, AliasC>>
    /\ IsFormulaField(formulas[1][2])
    /\ LET rows == physical[data_table_name(1, sheets[1].revision)].rows
       IN /\ Len(rows) = 2
          /\ rows[1][AliasB] = PyFloat(6)
          /\ rows[2][AliasC] = PyText("v")

\* C12: a compute during which the dataset blocks for longer than the
\* timeout, at whatever point of the stream, does not complete: it raises,
\* and the table is left as it was
C12_BlockedComputeAborts ==
    (last.op = "compute" /\ last.blocked # "none") => last.raised # ""

\* the columns of both tables of a copy whose logical types agree
Compatible(new, old) ==
    {n \in FieldNames(new.fields) \cap FieldNames(old.fields) :
        \E i \in DOMAIN new.fields : \E j \in DOMAIN old.fields :
            /\ new.fields[i].name = n
            /\ old.fields[j].name = n
            /\ FIELD_TYPE_TRYTON(new.fields[i].type) = FIELD_TYPE_TRYTON(old.fields[j].type)}

\* C13: after copy_from the new table holds the rows of the old one
\* projected onto the columns both have with a compatible type, every other
\* column of it being empty, and no row at all when no column qualifies
C13_CopyProjection ==
    last.op = "copy_from" =>
        LET old == tables[1]
            new == tables[2]
            from == physical[old.name].rows
            to == physical[new.name].rows
            common == Compatible(new, old)
        IN /\ last.raised = ""
           /\ Len(to) = IF common = {} THEN 0 ELSE Len(from)
           /\ \A i \in DOMAIN to : \A c \in DOMAIN to[i] \ {IdColumn} :
                 to[i][c] = IF c \in common THEN from[i][c] ELSE None

\* C14: copy_from ends by returning or by signalling the user warning,
\* never by another exception
C14_CopyNeverFails ==
    last.op = "copy_from" => last.raised \in {"", "UserWarning"}

\* C15: when the old table has columns the new one lacks, or columns whose
\* type changed, or the new table has columns without source, copy_from
\* signals the user warning and its message names every one of them
C15_WarningNamesColumns ==
    LET old == FieldNames(tables[1].fields)
        new == FieldNames(tables[2].fields)
        common == Compatible(tables[2], tables[1])
        concerned == (old \ new) \cup ((old \cap new) \ common) \cup (new \ old)
    IN (last.op = "copy_from" /\ concerned # {}) =>
           /\ last.raised = "UserWarning"
           /\ concerned \subseteq copy_from_message(tables[2], tables[1])

\* the tables remove_old_tables(days) has to delete: created before now - days
\* and the current_table of no sheet
Reaped(days) ==
    {t \in DOMAIN tables :
        /\ tables[t].create_date < tableSeq - days
        /\ \A id \in DOMAIN sheets : sheets[id].current_table # t}

\* C16: remove_old_tables(days), run alone, deletes exactly the Table records
\* created before now - days that are the current_table of no sheet, each
\* with its physical table; every other table keeps its record, its physical
\* table and its rows, and no sheet loses its current table
C16_ReapsOldTables ==
    [][Called("remove_old_tables") =>
          /\ Succeeded
          /\ DOMAIN tables' = DOMAIN tables \ Reaped(last'.days)
          /\ \A t \in Reaped(last'.days) : tables[t].name \notin DOMAIN physical'
          /\ \A t \in DOMAIN tables' :
                /\ tables'[t] = tables[t]
                /\ tables[t].name \in DOMAIN physical'
                /\ physical'[tables[t].name] = physical[tables[t].name]
          /\ sheets' = sheets]_vars

\* remove_old_tables(1) dropped a table and left a current table that has
\* rows and a table younger than a day
C16_Witness ==
    /\ last.op = "remove_old_tables"
    /\ last.days = 1
    /\ last.dropped # {}
    /\ \E id \in DOMAIN sheets :
          /\ sheets[id].current_table \in DOMAIN tables
          /\ physical[tables[sheets[id].current_table].name].rows # <<>>
    /\ \E t \in DOMAIN tables : tables[t].create_date >= tableSeq - 1
\* C18: a second remove_old_tables with the same threshold, right after one
\* that succeeded, raises no error, deletes nothing and leaves the tables,
\* their rows and the sheets as the first run left them
C18_SecondRunDeletesNothing ==
    [][(Called("remove_old_tables") /\ last'.again) =>
          /\ Succeeded
          /\ last'.dropped = {}
          /\ tables' = tables
          /\ physical' = physical
          /\ sheets' = sheets]_vars

\* remove_old_tables ran a second time after a run that had deleted a table
\* and left others
C18_Witness ==
    /\ last.op = "remove_old_tables"
    /\ last.again
    /\ tables # <<>>
    /\ \E t \in 1..(tableSeq - 1) : t \notin DOMAIN tables
\* every Table record has its physical table, every physical table its record
OneToOne ==
    /\ \A t, u \in DOMAIN tables : tables[t].name = tables[u].name => t = u
    /\ {tables[t].name : t \in DOMAIN tables} = DOMAIN physical

\* C19: after any sequence of activate, remove_old_tables and Table.delete
\* the Table records and the physical tables correspond one to one, and a
\* step destroys a table only when no sheet has it as its current_table
C19_DestroyedOnlyIfNotCurrent ==
    [][/\ OneToOne'
       /\ \A t \in DOMAIN tables \ DOMAIN tables' :
             \A id \in DOMAIN sheets : sheets[id].current_table # t]_vars
Owner(context) ==
    IF context.shine_sheet # 0 THEN context.shine_sheet
    ELSE IF context.shine_view # 0 THEN Views[context.shine_view].sheet
    ELSE 0

ByPriority(context) ==
    IF context.shine_table # 0 THEN context.shine_table
    ELSE IF Owner(context) # 0 /\ sheets[Owner(context)].current_table # 0
    THEN sheets[Owner(context)].current_table
    ELSE IF context.shine_view # 0
    THEN sheets[Views[context.shine_view].sheet].current_table
    ELSE 0

\* C20: a get_table that returns gives the table of the highest source that
\* has one: the shine_table of the context, else the current_table of the
\* owning sheet (the shine_sheet of the context, else the sheet of its
\* view), else the current table of the view
C20_TablePriority ==
    [][(Called("get_table") /\ Succeeded) =>
          last'.table = ByPriority(last'.context)]_vars

\* get_table was called without override, for a sheet and for the view of
\* another sheet that have different current tables, and returned a table
C20_Witness ==
    /\ last.op = "get_table"
    /\ last.raised = ""
    /\ last.context.shine_table = 0
    /\ last.context.shine_sheet # 0
    /\ last.context.shine_view # 0
    /\ sheets[last.context.shine_sheet].current_table # 0
    /\ get_current_table(sheets, last.context.shine_view) # 0
    /\ sheets[last.context.shine_sheet].current_table
          # get_current_table(sheets, last.context.shine_view)
    /\ last.table # 0
\* C21: with an active table, the fields get_fields returns hold for every
\* field of the table, under its name, a descriptor that carries that name
\* and whose kind is the one FIELD_TYPES gives the field's type
C21_DescriptorPerField ==
    (last.op = "get_fields" /\ last.raised = "") =>
        \A i \in DOMAIN tables[1].fields :
            LET field == tables[1].fields[i]
            IN /\ field.name \in DOMAIN last.result
               /\ last.result[field.name].name = field.name
               /\ last.result[field.name].kind = FIELD_TYPE_TRYTON(field.type)

\* the derived columns of a row hold what its stored columns derive
Rederived(record) ==
    LET tbl == physical[ActiveTable.name]
    IN \A c \in formula_fields(ActiveTable) :
          RowOf(tbl, record)[c] = Derive(tbl, ActiveTable, record)[c]

\* C22: after Data.write on a table with formula fields, every row of every
\* group whose values name no formula field has its derived columns
\* re-derived, also when another group of the call names a formula field
C22_EveryGroupRederived ==
    (last.op = "data_write" /\ last.raised = "") =>
        \A g \in DOMAIN last.args :
            DOMAIN last.args[g].values \cap formula_fields(ActiveTable) = {} =>
                \A record \in Range(last.args[g].records) : Rederived(record)

\* C23: every call of Data.write, Data.create and Data.update_formulas
\* returns: the calls they make of each other end, for every content of the
\* table and every argument, the empty ones included
C23_DataCallsTerminate ==
    last.op \in {"data_write", "data_create", "data_update_formulas"} =>
        last.raised # "RecursionError"

\* the rows of the active table
Rows == physical[ActiveTable.name].rows

\* a new row holds the supplied value in every supplied column that is not
\* derived, null in the other columns that are neither derived nor the id,
\* and derived values in the derived columns
AsSupplied(row, id, given) ==
    /\ row[IdColumn] = PyInt(id)
    /\ \A c \in DOMAIN row \ (formula_fields(ActiveTable) \cup {IdColumn}) :
          row[c] = IF c \in DOMAIN given THEN given[c] ELSE None
    /\ Rederived(id)

\* after Data.create: the row made for the i-th supplied row is the i-th of
\* the last rows of the table, has the i-th returned id and is as supplied
NewRow(i) ==
    AsSupplied(Rows[Len(Rows) - Len(last.args) + i], last.result[i], last.args[i].values)

\* C24: Data.create(rows) inserts one new row per supplied row with the
\* supplied columns set, returns the new records in the order of the input,
\* re-derives the formula columns of the new rows and leaves every row that
\* was there before as it was
C24_CreateFrame ==
    [][(Called("data_create") /\ Succeeded) =>
          /\ Len(Rows') = Len(Rows) + Len(last'.args)
          /\ Len(last'.result) = Len(last'.args)
          /\ \A i \in DOMAIN Rows : Rows'[i] = Rows[i]
          /\ \A i \in 1..Len(last'.args) :
                NewRow(i)']_vars

\* the row ids of a sequence of rows
IdsOf(rows) == {rows[i][IdColumn][2] : i \in DOMAIN rows}

\* C25: Data.delete(records) removes exactly the rows of the active table
\* whose id is one of the given ids above 0; ids not above 0 are skipped
\* without error, and the rows that stay are unchanged and in their order
C25_DeleteExactlyGiven ==
    [][Called("data_delete") =>
          LET given == {id \in Range(last'.args[1].records) : id > 0}
          IN /\ Succeeded
             /\ IdsOf(Rows') = IdsOf(Rows) \ given
             /\ \A j \in DOMAIN Rows' : \E i \in DOMAIN Rows : Rows[i] = Rows'[j]
             /\ \A j, k \in DOMAIN Rows' :
                   j < k => Rows'[j][IdColumn][2] < Rows'[k][IdColumn][2]]_vars

\* a delete was given an id that is not above 0, the id of no row and ids of
\* rows, and a row stayed
C25_Witness ==
    /\ last.op = "data_delete"
    /\ last.raised = ""
    /\ \E id \in Range(last.args[1].records) : id <= 0
    /\ \E id \in Range(last.args[1].records) :
          id > 0 /\ id < physical[ActiveTable.name].idseq /\ id \notin IdsOf(Rows)
    /\ Rows # <<>>

\* row `new` is a copy of row `source`: another id, the same value in every
\* column that is neither the id nor derived, and derived columns re-derived
CopyOf(new, source) ==
    /\ new[IdColumn] # source[IdColumn]
    /\ \A c \in DOMAIN source \ (formula_fields(ActiveTable) \cup {IdColumn}) :
          new[c] = source[c]
    /\ Rederived(new[IdColumn][2])

\* C26: Data.copy(records) of saved rows creates as many new rows as records
\* were given, for each given row one with a fresh id whose other columns
\* equal the source's and whose derived columns are re-derived, and leaves
\* the source rows unchanged
C26_CopyPerRecord ==
    [][(/\ Called("data_copy")
        /\ Succeeded
        /\ Range(last'.args[1].records) \subseteq IdsOf(Rows)) =>
          /\ Len(Rows') = Len(Rows) + Len(last'.args[1].records)
          /\ \A i \in DOMAIN Rows : Rows'[i] = Rows[i]
          /\ \A i \in DOMAIN Rows :
                Rows[i][IdColumn][2] \in Range(last'.args[1].records) =>
                    \E j \in (Len(Rows) + 1)..Len(Rows') :
                        CopyOf(Rows[j], Rows[i])']_vars

\* the evaluation of a derived formula on a record of the dataset yields an
\* XlError: its inputs are columns of the record and the function fails
YieldsError(f, record) ==
    /\ StartsWithEq(f.expression)
    /\ \A k \in DOMAIN f.expression.inputs : Lower(f.expression.inputs[k]) \in DOMAIN record
    /\ Eval(f.expression,
            [k \in DOMAIN f.expression.inputs |-> record[Lower(f.expression.inputs[k])]]) = XlError

\* C27: a formula whose evaluation yields an XlError is not fatal to
\* compute_sheet, and the value stored in its column is null
C27_ErrorValueIsNull ==
    (last.op = "compute" /\ last.blocked = "none" /\ ReadsDataSet(physical, 1)) =>
        LET fs == formulas[1]
            rows == physical[data_table_name(1, sheets[1].revision)].rows
            records == Flatten(get_data(sheets[1].dataset))
        IN \A i \in DOMAIN records : \A k \in DOMAIN fs :
              YieldsError(fs[k], records[i]) =>
                  /\ last.raised = ""
                  /\ rows[i][fs[k].alias] = None

\* the formula at place k reads a derived formula that comes before it
ReadsDerived(fs, k) ==
    /\ StartsWithEq(fs[k].expression)
    /\ \E j \in 1..(k - 1) : \E n \in DOMAIN fs[k].expression.inputs :
          /\ IsFormulaField(fs[j])
          /\ Lower(fs[k].expression.inputs[n]) = fs[j].alias

\* C29: compute_sheet of a sheet with a derived formula that reads an
\* earlier derived formula completes, and the formula's column holds its
\* value on the values computed so far for the row
C29_ReadsEarlierDerived ==
    (last.op = "compute" /\ last.blocked = "none" /\ ReadsDataSet(physical, 1)) =>
        LET fs == formulas[1]
            rows == physical[data_table_name(1, sheets[1].revision)].rows
            records == Flatten(get_data(sheets[1].dataset))
        IN \A k \in DOMAIN fs :
              ReadsDerived(fs, k) =>
                  /\ last.raised = ""
                  /\ \A i \in DOMAIN records :
                        rows[i][fs[k].alias] = Derived(fs[k], rows[i])

\* C28: for a model source get_data ends and is a finite sequence of
\* batches, none with more records than the batch size, that holds every
\* matching record once, in the order of the search, also when there are as
\* many matching records as the batch size or more
C28_ModelDataOnce ==
    last.op = "get_data_model" =>
        /\ last.raised = ""
        /\ Flatten(last.result) = last.args[1].matching
        /\ \A b \in DOMAIN last.result : Len(last.result[b]) <= last.args[1].limit[2]

\* C30: compute_sheet polls the timeout for every record of every batch: a
\* compute whose dataset blocks for longer than the timeout, while a batch
\* is fetched or while its records are iterated, raises the timeout and
\* processes no further record, so that no row of the run is stored; this
\* holds for the sources that deliver a single batch too
C30_TimeoutPerRecord ==
    [][(Called("compute") /\ last'.blocked # "none") =>
          /\ last'.raised = "TimeoutException"
          /\ physical' = physical]_vars

\* C34: the state of a sheet is draft, active or canceled and changes only
\* along a transition of the workflow; an activate given a sheet that is
\* not in draft leaves that sheet as it was, revision and current table
\* included, and creates no table for it
C34_Lifecycle ==
    [][\A id \in SheetIds :
          /\ sheets'[id].state \in {"draft", "active", "canceled"}
          /\ sheets'[id].state # sheets[id].state =>
                <<sheets[id].state, sheets'[id].state>> \in
                    { <<"draft", "active">>, <<"draft", "canceled">>,
                      <<"active", "draft">>, <<"active", "canceled">>,
                      <<"canceled", "draft">> }
          /\ (Called("activate") /\ id \in Range(last'.args)
                  /\ sheets[id].state # "draft") =>
                /\ sheets'[id] = sheets[id]
                /\ \A t \in DOMAIN tables' \ DOMAIN tables :
                      tables'[t].name # data_table_name(id, sheets[id].revision + 1)]_vars

\* an activate was given a canceled sheet, and another one that it took from
\* draft to its first table
C34_Witness ==
    /\ last.op = "activate"
    /\ last.raised = ""
    /\ last.args = <<2, 1>>
    /\ sheets[2].state = "canceled"
    /\ sheets[2].current_table = 0
    /\ sheets[1].state = "active"
    /\ sheets[1].revision = 2
    /\ DOMAIN tables = {1}

\* the formula at place i compiles, calls no unknown function, and reads an
\* alias that no formula before it has
UndeclaredAt(fs, i) ==
    /\ StartsWithEq(fs[i].expression)
    /\ fs[i].expression.syntax
    /\ fs[i].expression.methods = {}
    /\ \E a \in Reads(fs[i]) : \A j \in 1..(i - 1) : fs[j].alias # a

\* the severity of every formula that reads an undeclared alias is warning
WarningSeverity(fs) ==
    \A i \in DOMAIN fs : UndeclaredAt(fs, i) => formula_error(fs, i) = "warning"

\* C32 as stated: a reference to an alias that is not declared before the
\* formula has severity warning, never error, and the warning is not fatal:
\* an activate of a sheet none of whose formulas has severity error is not
\* rejected for its formulas
C32_WarningNotFatal ==
    [][/\ WarningSeverity(formulas[1])
       /\ (Called("activate")
              /\ \A i \in DOMAIN formulas[1] : formula_error(formulas[1], i) # "error")
            => last'.error # "shine.invalid_formula"]_vars

\* C32, amended: a reference to an alias that is not declared before the
\* formula has severity warning, never error, whether the alias is declared
\* later or nowhere; the warning does not keep the formula from being
\* saved, but an activate of the sheet is rejected for it
C32_WarningRejectsActivation ==
    [][/\ WarningSeverity(formulas'[1])
       /\ (Called("formula_save") /\ ~Succeeded) =>
              last'.error \in {"shine.invalid_alias", "shine.invalid_store",
                               "shine.sheet_alias_uniq"}
       /\ (Called("activate")
              /\ \E i \in DOMAIN formulas[1] : formula_error(formulas[1], i) = "warning")
            => /\ last'.raised = "UserError"
               /\ last'.error = "shine.invalid_formula"
               /\ sheets' = sheets]_vars

\* an activate was rejected for a sheet whose only finding is a warning, for
\* a formula that reads the alias of a later formula
C32_Witness ==
    /\ last.op = "activate"
    /\ last.error = "shine.invalid_formula"
    /\ \A i \in DOMAIN formulas[1] : formula_error(formulas[1], i) # "error"
    /\ \E i \in DOMAIN formulas[1] :
          /\ formula_error(formulas[1], i) = "warning"
          /\ \E j \in (i + 1)..Len(formulas[1]) :
                formulas[1][j].alias \in Reads(formulas[1][i])

\* C35: a sheet in state active has a current table, and the name of that
\* table is the sheet's data_table_name, after any sequence of activate,
\* draft and Sheet.copy
C35_ActiveHasNamedTable ==
    \A id \in SheetIds :
        sheets[id].state = "active" =>
            /\ sheets[id].current_table # 0
            /\ tables[sheets[id].current_table].name
                  = data_table_name(id, sheets[id].revision)
\* C36: after a successful Sheet.activate, every view of every sheet the
\* call activated, a system view or a view of the user, has an action whose
\* context shine_table is the new current table of the sheet
C36_ViewsOpenCurrentTable ==
    [][Called("activate") /\ last'.raised = ""
       => \A id \in Range(Filtered(sheets, last'.args, "active")) :
             /\ sheets'[id].current_table # sheets[id].current_table
             /\ \A i \in DOMAIN sheets'[id].views :
                   sheets'[id].views[i].shine_table = sheets'[id].current_table]_vars

\* C38: for every sheet an activation accepted, formulas that are not stored
\* or have no type included, the columns of the insert of compute_sheet are
\* the value columns of the table the activation created
C38_InsertColumnsAreTableColumns ==
    [][\A id \in SheetIds :
          /\ Called("activate") /\ last'.raised = ""
          /\ sheets[id].state # "active" /\ sheets'[id].state = "active"
          => LET fields == tables'[sheets'[id].current_table].fields
             IN Range(sql_fields(formulas'[id]))
                   = {fields[i].name : i \in DOMAIN fields}]_vars

\* C39: after Sheet.update_formulas(sheets), every sheet of the list that has
\* a dataset has a formula for every alias of the fields of its dataset, a
\* new one stored and of the type of the field, wherever the sheets without
\* dataset are in the list, and the formulas it had are unchanged
C39_UpdateFormulasCompletes ==
    [][Called("update_formulas") /\ last'.raised = ""
       => \A id \in Range(last'.args) :
             sheets[id].dataset # "None" =>
                LET fields == get_fields(sheets[id].dataset)
                    had == Range(Aliases(formulas[id]))
                IN /\ \A k \in DOMAIN fields :
                         \E i \in DOMAIN formulas'[id] :
                            /\ formulas'[id][i].alias = fields[k].alias
                            /\ fields[k].alias \notin had =>
                                  /\ formulas'[id][i].type = fields[k].type
                                  /\ formulas'[id][i].store
                   /\ Range(formulas[id]) \subseteq Range(formulas'[id])]_vars

\* the rows of the table old are in the table new of phys, one row each with
\* the values of the columns of both tables that are not derived, and every
\* derived column of new holds what its formula yields on the row
MigratedRows(phys, old, new) ==
    LET from == phys[old.name].rows
        to == phys[new.name].rows
        kept == (FieldNames(new.fields) \cap FieldNames(old.fields))
                   \ formula_fields(new)
    IN /\ Len(to) = Len(from)
       /\ \A r \in DOMAIN to :
             /\ \A c \in kept : to[r][c] = from[r][c]
             /\ \A c \in formula_fields(new) :
                   to[r][c] = on_change_with(to[r], FieldOf(new, c))

\* the activation of the one sheet id in draft from the state before it to
\* the state of phys, sh and tbls after it: copying is whether there are rows
\* to migrate
MigratesOrEmpty(id, raised, copying, old, phys, sh, tbls) ==
    LET new == tbls[sh[id].current_table]
    IN IF copying
       THEN /\ raised \in {"", "UserError"}
            /\ raised = "" => MigratedRows(phys, old, new)
       ELSE raised = "" => phys[new.name].rows = <<>>

\* C33: on the activation of a sheet without dataset whose current table
\* holds at least one row, the rows are migrated into the new table and its
\* derived columns are derived again before the new table is the current
\* one; with a dataset, without a previous table or with an empty previous
\* table nothing is copied and the new table is empty
C33_MigratesPreviousRows ==
    [][\A id \in SheetIds :
          Called("activate") /\ last'.args = <<id>> /\ sheets[id].state = "draft"
          => LET prev == sheets[id].current_table
                 copying == /\ sheets[id].dataset = "None"
                            /\ prev # 0
                            /\ count(physical, tables[prev].name) > 0
             IN MigratesOrEmpty(id, last'.raised, copying,
                                IF prev # 0 THEN tables[prev] ELSE <<>>,
                                physical', sheets', tables')]_vars

\* the derived column c of the row holds what compute_sheet, with the
\* formulas fs, stores for a record with the direct values of the row
ComputeAgrees(fs, row, c) ==
    LET direct == Range(Aliases(SelectSeq(fs, IsDirect)))
        record == [a \in direct |-> row[a]]
    IN /\ RowRaises(fs, record) = ""
       /\ row[c] = RowValues(fs, record)[c]

\* the rows a call of Data.create or Data.write was about
Touched(call) ==
    IF call.op = "data_create" THEN Range(call.result)
    ELSE Range(AllRecords(call.args))

\* C37: after Data.create or Data.write on a row, every derived column of
\* the row, one whose formula reads another derived column included, holds
\* the value compute_sheet produces in one pass from the direct values of
\* the row
C37_RederivationAgreesWithCompute ==
    last.op \in {"data_create", "data_write"} /\ last.raised = ""
    => \A id \in Touched(last) :
          \A c \in formula_fields(ActiveTable) :
             ComputeAgrees(formulas[1], RowOf(physical[ActiveTable.name], id), c)

\* the batches of the dataset d a compute_sheet had completed when it ended
\* with `raised`: all of them when it ran to its end or the dataset ended
\* the iteration, none when it ended earlier (every dataset has one batch at
\* most)
CompletedBatches(d, raised) ==
    IF raised \in {"", get_data_ends(d)} THEN get_data(d) ELSE <<>>

\* the rows in the table of the sheet id
TableRows(phys, sh, id) == phys[data_table_name(id, sh[id].revision)].rows

====
